---- MODULE Spec2Model ----
(***************************************************************************)
(* Model of the durable job scheduler of the Electron main process         *)
(* (electron/main.ts): the in-memory job table, its persisted copy, the    *)
(* setInterval poll loop with its asynchronous callbacks, and the          *)
(* enqueue / pause / resume / cancel IPC handlers; of the rate-limited     *)
(* executor (RateLimiter.executeWithRetry); and of the batch dispatcher     *)
(* (BatchProcessor.processContacts); of the attachment uploader            *)
(* (AttachmentHandler.attachFileToMultipleDrafts); of the token guard      *)
(* (TokenManager.ensureValidToken); of one run of a scheduler job          *)
(* (runSchedulerJob) with its requests; and of the batches of requests     *)
(* that share one executor (BatchRateLimiter.executeBatch).                *)
(*                                                                         *)
(* The scheduler's time is counted in seconds (the source counts           *)
(* milliseconds; every scheduler constant is a whole number of seconds);   *)
(* the executor's time is counted in milliseconds, the token guard's in    *)
(* minutes; the uploader counts a file in megabytes.                       *)
(***************************************************************************)
EXTENDS Integers, Sequences, FiniteSets, TLC

(***************************************************************************)
(* Bounds of the model. The handlers and the poll loop are modelled once;  *)
(* Spec explores them under the narrow bounds and WideSpec under the wide  *)
(* ones, where jobs share a due list and poll callbacks overlap.           *)
(***************************************************************************)
MaxJobs == 1            \* jobs ever enqueued
MaxTicks == 1           \* poll callbacks that may be awaiting a run at once
MaxRequests == 1        \* pause / resume / cancel requests the operator makes
WideJobs == 2           \* jobs ever enqueued, wide
WideTicks == 2          \* poll callbacks awaiting a run at once, wide
WideRequests == 2       \* operator requests, wide
MaxNow == 60            \* the clock stops advancing here
LongNow == 2100         \* the clock of the backoff specification stops here
ClockStep == 60         \* seconds by which the clock advances in one step
MaxRetriesArg == 3      \* the largest maxRetries a call is given
MaxContacts == 61       \* the longest contact list
MaxUploads == 4         \* the longest list of message ids given to the uploader
MaxFileSize == 7        \* the largest file (MB)
MaxCallers == 2         \* ensureValidToken calls made
MaxGuardClock == 10     \* the token guard's clock stops advancing here
GuardStep == 5          \* minutes by which that clock advances in one step
TokenLifetime == 60     \* minutes a refreshed credential is valid for
MaxRunMessages == 3     \* message ids of the job given to a run
MaxBatchRequests == 4   \* the longest request list given to executeBatch
MaxRejections == 2      \* requests of a batch the remote service rejects
MaxGroup == 3           \* contacts of the group whose responses are permuted

(***************************************************************************)
(* Program constants (seconds).                                            *)
(***************************************************************************)
BackoffCapSecs == 600       \* Math.min(600000, ...)
BackoffBaseSecs == 30       \* ... * 30000
ResumeBumpSecs == 1         \* Date.now() + 1000
DefaultMaxAttempts == 3     \* payload.maxAttempts || 3
DefaultMaxRetries == 3      \* RateLimiter.maxRetries
BaseDelayMs == 1000         \* RateLimiter.baseDelay
MaxDelayMs == 30000         \* Math.min(..., 30000)
DefaultRetryAfterSecs == 60 \* extractRetryAfter's default
BATCH_SIZE == 20            \* BatchProcessor.BATCH_SIZE
MAX_CONCURRENT_BATCHES == 3 \* BatchProcessor.MAX_CONCURRENT_BATCHES
CHUNK_SIZE == 3             \* AttachmentHandler.CHUNK_SIZE (MB)
UploadConcurrency == 3      \* attachFileToMultipleDrafts' concurrency
BufferMinutes == 5          \* ensureValidToken's bufferTime
MAX_CONCURRENT_REQUESTS == 3 \* BatchRateLimiter.MAX_CONCURRENT_REQUESTS

VARIABLES
    schedulerJobs,  \* Map<string, SchedulerJob>, as the sequence of its values
                    \* in insertion order
    store,          \* scheduler-jobs.json: the persisted list of jobs
    now,            \* Date.now()
    ticks,          \* the pending poll callbacks, each as the due jobs
                    \* (snapshots taken when the tick fired) it has not
                    \* finished; the head is the job whose run is awaited
    schedulerTimer, \* TRUE when the setInterval timer is installed
    requests,       \* pause / resume / cancel requests made so far
    diskWritable,   \* FALSE while fs.writeFileSync on the store file throws
    \* RateLimiter (one instance)
    retryAfter,     \* this.retryAfter: the cooldown timestamp (ms), 0 when clear
    clock,          \* Date.now() of the renderer (ms)
    calls,          \* the executeWithRetry calls made on the instance
    \* BatchProcessor (one processContacts call)
    contacts,       \* the contacts argument, as the list of the contact ids
    attachment,     \* TRUE when an attachment is passed
    dispatchPc,     \* where processContacts is
    batches,        \* the groups made by createBatches
    results,        \* the results array
    window,         \* processBatchesInParallel's i: the first group of the
                    \* concurrency window being processed
    outstanding,    \* the groups whose createBatchDrafts call is awaited
    batchResults,   \* what processBatch returned for the groups of the
                    \* window that are done
    createdMessageIds, \* processBatchesInParallel's createdMessageIds
    attachmentResults, \* attachFilesToDrafts' attachmentResults: what the
                    \* uploader resolved with (<<>> before that)
    progress,       \* the snapshots onProgress was called with, as they
                    \* were when delivered
    \* AttachmentHandler (one attachFileToMultipleDrafts call)
    uploadIds,      \* the messageIds argument
    uploadFile,     \* file.size (MB)
    uploadPc,       \* where attachFileToMultipleDrafts is
    uploadChunks,   \* chunks: the groups made by chunkArray
    uploadChunk,    \* the position in chunks of the group being uploaded
    promises,       \* the promises of that group, one per message
    uploadResults,  \* the results array
    served,         \* for each position of messageIds, the requests the
                    \* remote service has answered for it, in order
    \* TokenManager and its GraphClientService
    tokens,         \* graphService.tokens
    refreshMutex,   \* this.refreshMutex
    guardClock,     \* Date.now() (minutes)
    tokenCalls,     \* the ensureValidToken calls made
    \* runSchedulerJob (one call)
    runJob,         \* the job argument
    runPc,          \* where runSchedulerJob is
    runIndex,       \* the position in job.messageIds of the for loop
    runSucceeded,   \* succeededMessageIds
    runFailed,      \* failedMessageIds
    graphRequests,  \* the requests for messages the remote service has
                    \* answered, in order
    \* BatchRateLimiter (one executeBatch call on one RateLimiter)
    batchRequests   \* requests.length of the executeBatch call, 0 before it

schedulerVars ==
    <<schedulerJobs, store, now, ticks, schedulerTimer, requests, diskWritable>>
executorVars == <<retryAfter, clock, calls>>
dispatchVars ==
    <<contacts, attachment, dispatchPc, batches, results, window, outstanding,
      batchResults, createdMessageIds, attachmentResults, progress>>

uploadVars ==
    <<uploadIds, uploadFile, uploadPc, uploadChunks, uploadChunk, promises,
      uploadResults, served>>
guardVars == <<tokens, refreshMutex, guardClock, tokenCalls>>
runVars == <<runJob, runPc, runIndex, runSucceeded, runFailed, graphRequests>>
batchVars == <<batchRequests>>

\* The state outside the scheduler, outside the executor, outside the
\* dispatcher, outside the uploader, outside the token guard and outside
\* the run. The executor's calls are also the calls executeBatch makes, so
\* nonBatchVars leaves the executor out.
nonSchedulerVars ==
    <<executorVars, dispatchVars, uploadVars, guardVars, runVars, batchVars>>
nonExecutorVars ==
    <<schedulerVars, dispatchVars, uploadVars, guardVars, runVars, batchVars>>
nonDispatchVars ==
    <<schedulerVars, executorVars, uploadVars, guardVars, runVars, batchVars>>
nonUploadVars ==
    <<schedulerVars, executorVars, dispatchVars, guardVars, runVars, batchVars>>
nonGuardVars ==
    <<schedulerVars, executorVars, dispatchVars, uploadVars, runVars, batchVars>>
nonRunVars ==
    <<schedulerVars, executorVars, dispatchVars, uploadVars, guardVars, batchVars>>
nonBatchVars ==
    <<schedulerVars, dispatchVars, uploadVars, guardVars, runVars>>

vars ==
    <<schedulerVars, executorVars, dispatchVars, uploadVars, guardVars, runVars,
      batchVars>>

Statuses == {"queued", "running", "completed", "failed", "paused", "cancelled"}
TerminalStatuses == {"completed", "failed", "cancelled"}

\* error?: string
NoError == [kind |-> "none", count |-> 0]
MessagesFailed(n) == [kind |-> "messages", count |-> n]
ExecutionError == [kind |-> "exception", count |-> 0]

\* The empty message id (falsy in the source).
EmptyId == ""

Min(a, b) == IF a < b THEN a ELSE b
Max(a, b) == IF a > b THEN a ELSE b

RECURSIVE Pow2(_)
Pow2(n) == IF n <= 0 THEN 1 ELSE 2 * Pow2(n - 1)

\* A backoff without the cap.
BackoffUncapped(attempts) == Pow2(attempts + 1) * BackoffBaseSecs

\* Math.min(600000, (2 ** (attempts + 1)) * 30000)
Backoff(attempts) == Min(BackoffCapSecs, Pow2(attempts + 1) * BackoffBaseSecs)

SeqToSet(s) == {s[i] : i \in DOMAIN s}

\* payload.messageIds.filter(Boolean)
RECURSIVE FilterNonEmpty(_)
FilterNonEmpty(s) ==
    IF s = <<>> THEN <<>>
    ELSE IF Head(s) = EmptyId THEN FilterNonEmpty(Tail(s))
    ELSE <<Head(s)>> \o FilterNonEmpty(Tail(s))

\* Array.from(new Set(ids)): first occurrences, in order
RECURSIVE Dedupe(_, _)
Dedupe(s, seen) ==
    IF s = <<>> THEN <<>>
    ELSE IF Head(s) \in seen THEN Dedupe(Tail(s), seen)
    ELSE <<Head(s)>> \o Dedupe(Tail(s), seen \cup {Head(s)})

\* Array.prototype.sort((a, b) => b.createdAt - a.createdAt): stable, newest first
RECURSIVE InsertByCreatedAt(_, _)
InsertByCreatedAt(job, sorted) ==
    IF sorted = <<>> THEN <<job>>
    ELSE IF Head(sorted).createdAt >= job.createdAt
         THEN <<Head(sorted)>> \o InsertByCreatedAt(job, Tail(sorted))
         ELSE <<job>> \o sorted

RECURSIVE SortNewestFirst(_)
SortNewestFirst(s) ==
    IF s = <<>> THEN <<>>
    ELSE InsertByCreatedAt(s[Len(s)], SortNewestFirst(SubSeq(s, 1, Len(s) - 1)))

RECURSIVE FilterDue(_, _)
FilterDue(s, t) ==
    IF s = <<>> THEN <<>>
    ELSE IF Head(s).status = "queued" /\ Head(s).runAt <= t
         THEN <<Head(s)>> \o FilterDue(Tail(s), t)
         ELSE FilterDue(Tail(s), t)

listSchedulerJobs(js) == SortNewestFirst(js)

\* A job object as the tick callback keeps it in dueJobs: the table replaces
\* records and never mutates them, so the object stays as it was when the
\* tick fired. Only the fields the loop and runSchedulerJob read are kept.
Snapshot(job) ==
    [id |-> job.id, messageIds |-> job.messageIds, attempts |-> job.attempts,
     maxAttempts |-> job.maxAttempts, runAt |-> job.runAt]

\* listSchedulerJobs().filter(job => job.status === 'queued' && job.runAt <= now)
DueJobs(js, t) ==
    LET due == FilterDue(listSchedulerJobs(js), t)
    IN  [i \in DOMAIN due |-> Snapshot(due[i])]

HasJob(js, jobId) == \E i \in DOMAIN js : js[i].id = jobId

\* schedulerJobs.get(jobId), for a known id
GetJob(js, jobId) == js[CHOOSE i \in DOMAIN js : js[i].id = jobId]

\* updateSchedulerJob: the table after the update, next being updater(current)
\* (the table is unchanged for an unknown id); Map.set on an existing key
\* keeps the key's position
updateSchedulerJob(js, jobId, next) ==
    [i \in DOMAIN js |-> IF js[i].id = jobId THEN next ELSE js[i]]

\* updateSchedulerJob's return value: <<>> is null, <<job>> the updated job
updateResult(js, jobId) ==
    IF HasJob(js, jobId) THEN <<GetJob(js, jobId)>> ELSE <<>>

\* The optional fields of a job that are undefined.
UndefinedKeys(job) ==
    (IF job.error = NoError THEN {"error"} ELSE {})
        \cup (IF job.lastResult = <<>> THEN {"lastResult"} ELSE {})

\* JSON.stringify of one job: a key whose value is undefined is not written
JsonStringify(job) == [k \in (DOMAIN job) \ UndefinedKeys(job) |-> job[k]]

\* JSON.parse of one stored record, as the code then reads it: a key that is
\* not in the record reads as undefined
JsonParse(r) ==
    [id |-> r.id, messageIds |-> r.messageIds, runAt |-> r.runAt,
     attempts |-> r.attempts, maxAttempts |-> r.maxAttempts,
     status |-> r.status,
     error |-> IF "error" \in DOMAIN r THEN r.error ELSE NoError,
     lastResult |-> IF "lastResult" \in DOMAIN r THEN r.lastResult ELSE <<>>,
     createdAt |-> r.createdAt]

\* persistSchedulerJobs: the content of the store file afterwards. The
\* sorted table is written as JSON; when the write throws, the catch block
\* only warns and the file stays as it was.
persistSchedulerJobs(js, file, writable) ==
    IF writable
    THEN LET payload == SortNewestFirst(js)
         IN  [i \in DOMAIN payload |-> JsonStringify(payload[i])]
    ELSE file

\* loadSchedulerJobs into an empty table: every stored record with an id (and
\* a messageIds array, which every record written by persistSchedulerJobs has)
\* is set, in the order of the stored list
RECURSIVE loadSchedulerJobs(_)
loadSchedulerJobs(stored) ==
    IF stored = <<>> THEN <<>>
    ELSE IF Head(stored).id # 0
         THEN <<JsonParse(Head(stored))>> \o loadSchedulerJobs(Tail(stored))
         ELSE loadSchedulerJobs(Tail(stored))

(***************************************************************************)
(* The updaters handed to updateSchedulerJob.                              *)
(***************************************************************************)

\* startScheduler, line 188: the tick marks the job running
MarkRunning(current) == [current EXCEPT !.status = "running", !.error = NoError]

\* A run that records a message as succeeded before its requests are made.
RunResultAllSucceeded(current, job, failed, t) ==
    [current EXCEPT
        !.attempts = current.attempts + 1,
        !.status = IF failed = {} THEN "completed" ELSE "failed",
        !.lastResult = <<[succeededMessageIds |-> job.messageIds,
                          failedMessageIds |->
                              SelectSeq(job.messageIds, LAMBDA m : m \in failed)]>>]

\* runSchedulerJob, lines 167-179: job is the snapshot the run was started
\* with, failed the set of message ids whose patch or move failed, t Date.now()
RunResult(current, job, failed, t) ==
    LET succeededMessageIds == SelectSeq(job.messageIds, LAMBDA m : m \notin failed)
        failedMessageIds == SelectSeq(job.messageIds, LAMBDA m : m \in failed)
        hasFailures == Len(failedMessageIds) > 0
        canRetry == hasFailures /\ job.attempts + 1 < job.maxAttempts
        nextStatus == IF hasFailures
                      THEN (IF canRetry THEN "queued" ELSE "failed")
                      ELSE "completed"
        nextRunAt == IF canRetry THEN t + Backoff(job.attempts) ELSE job.runAt
    IN  [current EXCEPT
            !.attempts = current.attempts + 1,
            !.runAt = nextRunAt,
            !.status = nextStatus,
            !.error = IF hasFailures THEN MessagesFailed(Len(failedMessageIds))
                      ELSE NoError,
            !.lastResult = <<[succeededMessageIds |-> succeededMessageIds,
                              failedMessageIds |-> failedMessageIds]>>]

\* A catch block that records no error.
RunThrewSilent(current, t) ==
    LET canRetry == current.attempts + 1 < current.maxAttempts
    IN  [current EXCEPT
            !.attempts = current.attempts + 1,
            !.status = IF canRetry THEN "queued" ELSE "failed",
            !.runAt = IF canRetry THEN t + Backoff(current.attempts)
                      ELSE current.runAt]

\* startScheduler, lines 192-201: the run threw
RunThrew(current, t) ==
    LET canRetry == current.attempts + 1 < current.maxAttempts
    IN  [current EXCEPT
            !.attempts = current.attempts + 1,
            !.status = IF canRetry THEN "queued" ELSE "failed",
            !.runAt = IF canRetry THEN t + Backoff(current.attempts)
                      ELSE current.runAt,
            !.error = ExecutionError]

\* A pause updater without the status guard.
PauseAnyStatus(current) == [current EXCEPT !.status = "paused"]

\* campaign:scheduler-pause
PauseUpdater(current) ==
    [current EXCEPT
        !.status = IF current.status = "queued" \/ current.status = "running"
                   THEN "paused" ELSE current.status]

\* campaign:scheduler-resume
ResumeUpdater(current, t) ==
    [current EXCEPT
        !.status = IF current.status = "paused" THEN "queued" ELSE current.status,
        !.runAt = IF current.runAt < t THEN t + ResumeBumpSecs ELSE current.runAt]

\* campaign:scheduler-cancel
CancelUpdater(current) == [current EXCEPT !.status = "cancelled"]

\* An enqueue that takes the payload's runAt as it is.
NewJobUnclamped(id, payload, t) ==
    [id |-> id,
     messageIds |-> Dedupe(FilterNonEmpty(payload.messageIds), {}),
     runAt |-> payload.runAt,
     attempts |-> 0,
     maxAttempts |-> Max(1, IF payload.maxAttempts = 0 THEN DefaultMaxAttempts
                            ELSE payload.maxAttempts),
     status |-> "queued",
     error |-> NoError,
     lastResult |-> <<>>,
     createdAt |-> t]

\* campaign:scheduler-enqueue: the job built from the payload; 0 stands for a
\* missing (falsy) runAt or maxAttempts. campaignId, folderName, categoryName
\* and updatedAt are carried along by the source and read by no transition of
\* the job table; they are left out.
NewJob(id, payload, t) ==
    [id |-> id,
     messageIds |-> Dedupe(FilterNonEmpty(payload.messageIds), {}),
     runAt |-> Max(IF payload.runAt = 0 THEN t ELSE payload.runAt, t),
     attempts |-> 0,
     maxAttempts |-> Max(1, IF payload.maxAttempts = 0 THEN DefaultMaxAttempts
                            ELSE payload.maxAttempts),
     status |-> "queued",
     error |-> NoError,
     lastResult |-> <<>>,
     createdAt |-> t]

(***************************************************************************)
(* Inputs.                                                                 *)
(***************************************************************************)
PayloadMessageIds == {<<"m1", "", "m2", "m1">>}
PayloadMaxAttempts == {0, 1}
PayloadRunAt(t) == {0, t + ClockStep}

Payloads(t) ==
    [messageIds : PayloadMessageIds, runAt : PayloadRunAt(t),
     maxAttempts : PayloadMaxAttempts]

AllMessageIds == {"m1", "m2"}

\* The payloads of the enqueue specification: lists with repeated and empty
\* ids, an empty list, a missing (0), past and future runAt, a missing (0),
\* negative and positive maxAttempts.
AnyPayloadMessageIds ==
    {<<>>, <<"", "">>, <<"m1", "", "m2", "m1">>, <<"m2", "m1", "m2", "">>}
AnyPayloadMaxAttempts == {0, 0 - 1, 1, 5}
AnyPayloadRunAt(t) == {0, ClockStep \div 2, t + ClockStep}

AnyPayloads(t) ==
    [messageIds : AnyPayloadMessageIds, runAt : AnyPayloadRunAt(t),
     maxAttempts : AnyPayloadMaxAttempts]

\* The payloads of the backoff specification: due at once, with one, three
\* and seven attempts.
BackoffPayloads(t) ==
    [messageIds : {<<"m1", "m2">>}, runAt : {0}, maxAttempts : {1, 3, 7}]

\* The ids a request may name when at most maxJobs jobs are enqueued; the
\* last one is never the id of a job.
RequestIds(maxJobs) == 1 .. maxJobs + 1

(***************************************************************************)
(* Init: app.whenReady on a first launch (no store file yet).              *)
(***************************************************************************)
SchedulerInit ==
    /\ schedulerJobs = <<>>
    /\ store = <<>>
    /\ now = 0
    /\ ticks = <<>>
    /\ schedulerTimer = TRUE
    /\ requests = 0
    /\ diskWritable = TRUE

\* new RateLimiter()
ExecutorInit ==
    /\ retryAfter = 0
    /\ clock = 0
    /\ calls = <<>>

\* new BatchProcessor(), processContacts not called yet
DispatchIdle ==
    /\ attachment = FALSE
    /\ dispatchPc = "idle"
    /\ batches = <<>>
    /\ results = <<>>
    /\ window = 0
    /\ outstanding = {}
    /\ batchResults = <<>>
    /\ createdMessageIds = <<>>
    /\ attachmentResults = <<>>
    /\ progress = <<>>

DispatchInit ==
    /\ contacts = <<>>
    /\ DispatchIdle

\* new AttachmentHandler(), attachFileToMultipleDrafts not called yet
UploadInit ==
    /\ uploadIds = <<>>
    /\ uploadFile = 0
    /\ uploadPc = "idle"
    /\ uploadChunks = <<>>
    /\ uploadChunk = 0
    /\ promises = <<>>
    /\ uploadResults = <<>>
    /\ served = <<>>

\* tokens: StoredTokens | null, null having present FALSE
NoTokens == [present |-> FALSE, expiresAt |-> 0, refreshToken |-> ""]

\* new GraphClientService(); new TokenManager(graphService)
GuardInit ==
    /\ tokens = NoTokens
    /\ refreshMutex = FALSE
    /\ guardClock = 0
    /\ tokenCalls = <<>>

\* runSchedulerJob not called yet
RunInit ==
    /\ runJob = [messageIds |-> <<>>, categoryName |-> ""]
    /\ runPc = "idle"
    /\ runIndex = 0
    /\ runSucceeded = <<>>
    /\ runFailed = <<>>
    /\ graphRequests = <<>>

\* new BatchRateLimiter(), executeBatch not called yet
BatchInit == batchRequests = 0

Init ==
    /\ SchedulerInit
    /\ ExecutorInit
    /\ DispatchInit
    /\ UploadInit
    /\ GuardInit
    /\ RunInit
    /\ BatchInit

(***************************************************************************)
(* IPC handlers.                                                           *)
(***************************************************************************)
Enqueue(payload) ==
    /\ schedulerTimer
    /\ LET job == NewJob(Len(schedulerJobs) + 1, payload, now)
       IN  /\ schedulerJobs' = Append(schedulerJobs, job)
           /\ store' = persistSchedulerJobs(schedulerJobs', store, diskWritable)
    /\ UNCHANGED <<now, ticks, schedulerTimer, requests, diskWritable>>
    /\ UNCHANGED nonSchedulerVars

Pause(jobId) ==
    /\ schedulerTimer
    /\ requests' = requests + 1
    /\ IF HasJob(schedulerJobs, jobId)
       THEN /\ schedulerJobs' = updateSchedulerJob(schedulerJobs, jobId,
                                    PauseUpdater(GetJob(schedulerJobs, jobId)))
            /\ store' = persistSchedulerJobs(schedulerJobs', store, diskWritable)
       ELSE UNCHANGED <<schedulerJobs, store>>
    /\ UNCHANGED <<now, ticks, schedulerTimer, diskWritable>>
    /\ UNCHANGED nonSchedulerVars

Resume(jobId) ==
    /\ schedulerTimer
    /\ requests' = requests + 1
    /\ IF HasJob(schedulerJobs, jobId)
       THEN /\ schedulerJobs' = updateSchedulerJob(schedulerJobs, jobId,
                                    ResumeUpdater(GetJob(schedulerJobs, jobId), now))
            /\ store' = persistSchedulerJobs(schedulerJobs', store, diskWritable)
       ELSE UNCHANGED <<schedulerJobs, store>>
    /\ UNCHANGED <<now, ticks, schedulerTimer, diskWritable>>
    /\ UNCHANGED nonSchedulerVars

Cancel(jobId) ==
    /\ schedulerTimer
    /\ requests' = requests + 1
    /\ IF HasJob(schedulerJobs, jobId)
       THEN /\ schedulerJobs' = updateSchedulerJob(schedulerJobs, jobId,
                                    CancelUpdater(GetJob(schedulerJobs, jobId)))
            /\ store' = persistSchedulerJobs(schedulerJobs', store, diskWritable)
       ELSE UNCHANGED <<schedulerJobs, store>>
    /\ UNCHANGED <<now, ticks, schedulerTimer, diskWritable>>
    /\ UNCHANGED nonSchedulerVars

(***************************************************************************)
(* The poll loop.                                                          *)
(***************************************************************************)

\* The synchronous part of a loop iteration: mark the head of the due list
\* running (whatever its status now is) and start its run.
StartNext(js, due) ==
    IF due = <<>> THEN js
    ELSE updateSchedulerJob(js, Head(due).id, MarkRunning(GetJob(js, Head(due).id)))

\* A callback that ends when the run it awaited is over, with or without
\* due jobs left.
ContinueAborts(t, rest) ==
    SubSeq(ticks, 1, t - 1) \o SubSeq(ticks, t + 1, Len(ticks))

\* The pending callbacks once callback t has gone on to the rest of its due
\* list; a callback with nothing left is over.
Continue(t, rest) ==
    IF rest = <<>>
    THEN SubSeq(ticks, 1, t - 1) \o SubSeq(ticks, t + 1, Len(ticks))
    ELSE [ticks EXCEPT ![t] = rest]

\* The interval fires: the callback snapshots the due jobs and runs up to its
\* first await.
TickFires ==
    /\ schedulerTimer
    /\ LET dueJobs == DueJobs(schedulerJobs, now)
       IN  IF dueJobs = <<>>
           THEN UNCHANGED <<schedulerJobs, store, ticks>>
           ELSE /\ schedulerJobs' = StartNext(schedulerJobs, dueJobs)
                /\ store' = persistSchedulerJobs(schedulerJobs', store, diskWritable)
                /\ ticks' = Append(ticks, dueJobs)
    /\ UNCHANGED <<now, schedulerTimer, requests, diskWritable>>
    /\ UNCHANGED nonSchedulerVars

\* The awaited run of callback t returns: its result is applied and the loop
\* goes on to the next due job of its snapshot.
RunReturns(t, failed) ==
    /\ t \in DOMAIN ticks
    /\ LET job == Head(ticks[t])
           rest == Tail(ticks[t])
           applied == updateSchedulerJob(schedulerJobs, job.id,
                          RunResult(GetJob(schedulerJobs, job.id), job, failed, now))
       IN  /\ failed \subseteq SeqToSet(job.messageIds)
           /\ schedulerJobs' = StartNext(applied, rest)
           /\ store' = persistSchedulerJobs(schedulerJobs', store, diskWritable)
           /\ ticks' = Continue(t, rest)
    /\ UNCHANGED <<now, schedulerTimer, requests, diskWritable>>
    /\ UNCHANGED nonSchedulerVars

\* The awaited run of callback t throws (no credential, refresh or folder
\* resolution failed): the catch block applies the retry-or-fail transition.
RunThrows(t) ==
    /\ t \in DOMAIN ticks
    /\ LET job == Head(ticks[t])
           rest == Tail(ticks[t])
           applied == updateSchedulerJob(schedulerJobs, job.id,
                          RunThrew(GetJob(schedulerJobs, job.id), now))
       IN  /\ schedulerJobs' = StartNext(applied, rest)
           /\ store' = persistSchedulerJobs(schedulerJobs', store, diskWritable)
           /\ ticks' = Continue(t, rest)
    /\ UNCHANGED <<now, schedulerTimer, requests, diskWritable>>
    /\ UNCHANGED nonSchedulerVars

(***************************************************************************)
(* Environment: the clock, and the process stopping and starting again.    *)
(***************************************************************************)
AdvanceClock ==
    /\ now + ClockStep <= MaxNow
    /\ now' = now + ClockStep
    /\ UNCHANGED <<schedulerJobs, store, ticks, schedulerTimer, requests, diskWritable>>
    /\ UNCHANGED nonSchedulerVars

\* Time passes until the next queued job is due.
WaitUntilDue ==
    /\ \E i \in DOMAIN schedulerJobs :
           /\ schedulerJobs[i].status = "queued"
           /\ schedulerJobs[i].runAt > now
           /\ schedulerJobs[i].runAt <= LongNow
           /\ \A j \in DOMAIN schedulerJobs :
                  (schedulerJobs[j].status = "queued" /\ schedulerJobs[j].runAt > now)
                  => schedulerJobs[i].runAt <= schedulerJobs[j].runAt
           /\ now' = schedulerJobs[i].runAt
    /\ UNCHANGED <<schedulerJobs, store, ticks, schedulerTimer, requests, diskWritable>>
    /\ UNCHANGED nonSchedulerVars

\* The process stops (crash, kill, or quit): memory and callbacks are gone,
\* the store stays.
ProcessStops ==
    /\ schedulerTimer
    /\ schedulerJobs' = <<>>
    /\ ticks' = <<>>
    /\ schedulerTimer' = FALSE
    /\ UNCHANGED <<store, now, requests, diskWritable>>
    /\ UNCHANGED nonSchedulerVars

\* app.whenReady: loadSchedulerJobs(); startScheduler()
ProcessStarts ==
    /\ ~schedulerTimer
    /\ schedulerJobs' = loadSchedulerJobs(store)
    /\ schedulerTimer' = TRUE
    /\ UNCHANGED <<store, now, ticks, requests, diskWritable>>
    /\ UNCHANGED nonSchedulerVars

\* Writes to the store file start to fail (disk full, file not writable) and
\* succeed again.
DiskFails ==
    /\ diskWritable
    /\ diskWritable' = FALSE
    /\ UNCHANGED <<schedulerJobs, store, now, ticks, schedulerTimer, requests>>
    /\ UNCHANGED nonSchedulerVars

DiskRecovers ==
    /\ ~diskWritable
    /\ diskWritable' = TRUE
    /\ UNCHANGED <<schedulerJobs, store, now, ticks, schedulerTimer, requests>>
    /\ UNCHANGED nonSchedulerVars

(***************************************************************************)
(* Specifications. The handlers and the loop have no bounds of their own;  *)
(* each specification bounds the jobs enqueued, the poll callbacks pending *)
(* at once and the operator's requests.                                    *)
(***************************************************************************)
EnqueueStep(maxJobs) ==
    /\ Len(schedulerJobs) < maxJobs
    /\ \E payload \in Payloads(now) : Enqueue(payload)

EnqueueAnyStep(maxJobs) ==
    /\ Len(schedulerJobs) < maxJobs
    /\ \E payload \in AnyPayloads(now) : Enqueue(payload)

\* The first job is enqueued.
EnqueueFirstStep ==
    /\ schedulerJobs = <<>>
    /\ \E payload \in BackoffPayloads(now) : Enqueue(payload)

PauseStep(maxJobs, maxRequests) ==
    /\ requests < maxRequests
    /\ \E jobId \in RequestIds(maxJobs) : Pause(jobId)

ResumeStep(maxJobs, maxRequests) ==
    /\ requests < maxRequests
    /\ \E jobId \in RequestIds(maxJobs) : Resume(jobId)

CancelStep(maxJobs, maxRequests) ==
    /\ requests < maxRequests
    /\ \E jobId \in RequestIds(maxJobs) : Cancel(jobId)

TickStep(maxTicks) ==
    /\ Len(ticks) < maxTicks
    /\ TickFires

RunReturnsStep == \E t \in DOMAIN ticks : \E failed \in SUBSET AllMessageIds : RunReturns(t, failed)

RunFailsStep ==
    \E t \in DOMAIN ticks : \E failed \in (SUBSET AllMessageIds) \ {{}} : RunReturns(t, failed)

RunThrowsStep == \E t \in DOMAIN ticks : RunThrows(t)

\* The scheduler under the narrow bounds.
Next ==
    \/ EnqueueStep(MaxJobs)
    \/ PauseStep(MaxJobs, MaxRequests)
    \/ ResumeStep(MaxJobs, MaxRequests)
    \/ CancelStep(MaxJobs, MaxRequests)
    \/ TickStep(MaxTicks)
    \/ RunReturnsStep
    \/ RunThrowsStep
    \/ AdvanceClock

Spec == Init /\ [][Next]_vars

\* The scheduler under the wide bounds: several jobs, overlapping poll
\* callbacks, several operator requests.
WideNext ==
    \/ EnqueueStep(WideJobs)
    \/ PauseStep(WideJobs, WideRequests)
    \/ ResumeStep(WideJobs, WideRequests)
    \/ CancelStep(WideJobs, WideRequests)
    \/ TickStep(WideTicks)
    \/ RunReturnsStep
    \/ RunThrowsStep
    \/ AdvanceClock

WideSpec == Init /\ [][WideNext]_vars

\* The scheduler with the process stopping and starting again.
RestartNext ==
    \/ Next
    \/ ProcessStops
    \/ ProcessStarts

RestartSpec == Init /\ [][RestartNext]_vars

\* The interval timer keeps firing, an awaited run settles or throws, and a
\* stopped process is started again.
FairRestartSpec ==
    /\ RestartSpec
    /\ WF_vars(TickStep(MaxTicks))
    /\ WF_vars(RunReturnsStep)
    /\ WF_vars(ProcessStarts)

\* The scheduler with restarts and with writes to the store file failing.
DiskFaultNext ==
    \/ RestartNext
    \/ DiskFails
    \/ DiskRecovers

DiskFaultSpec == Init /\ [][DiskFaultNext]_vars

\* Enqueue requests with any payload, at any time.
EnqueueNext ==
    \/ EnqueueAnyStep(WideJobs)
    \/ AdvanceClock

EnqueueSpec == Init /\ [][EnqueueNext]_vars

\* The scheduler left alone by the operator, with every run failing: at least
\* one message fails, or the run throws.
AllFailNext ==
    \/ EnqueueStep(WideJobs)
    \/ TickStep(WideTicks)
    \/ RunFailsStep
    \/ RunThrowsStep
    \/ AdvanceClock

AllFailSpec == Init /\ [][AllFailNext]_vars

\* The scheduler left alone by the operator, with every run throwing (no
\* credential, or the folder cannot be resolved).
ThrowNext ==
    \/ EnqueueStep(WideJobs)
    \/ TickStep(MaxTicks)
    \/ RunThrowsStep
    \/ AdvanceClock

ThrowSpec == Init /\ [][ThrowNext]_vars

\* The scheduler left alone by the operator, one job being run each time it
\* is due until it is completed or failed.
BackoffNext ==
    \/ EnqueueFirstStep
    \/ TickStep(MaxTicks)
    \/ RunReturnsStep
    \/ RunThrowsStep
    \/ WaitUntilDue

BackoffSpec == Init /\ [][BackoffNext]_vars

(***************************************************************************)
(* The rate-limited executor: RateLimiter.executeWithRetry.                *)
(***************************************************************************)

\* An error the work function rejects with. headers is the value of its
\* retry-after header ("" when it has none).
WorkError(status, statusCode, code, message, header) ==
    [status |-> status, statusCode |-> statusCode, code |-> code,
     message |-> message, header |-> header]

ThrottledNoHint == WorkError(429, 0, "", "Too Many Requests", "")
ThrottledHeader == WorkError(0, 429, "", "Too Many Requests", "2")
ThrottledZeroHeader == WorkError(0, 0, "ThrottledRequest", "", "0")
ThrottledBadHeader == WorkError(429, 0, "", "Too Many Requests", "soon")
ThrottledInMessage == WorkError(0, 0, "", "throttled, retry after: 3", "")
ServerUnavailable == WorkError(503, 0, "", "Service Unavailable", "")
SocketTimeout == WorkError(0, 0, "ETIMEDOUT", "", "")
NetworkDown == WorkError(0, 0, "", "network down", "")
BadRequest == WorkError(400, 0, "", "Bad Request", "")
PlainError == WorkError(0, 0, "", "boom", "")

\* What the outcomes of a call record for an invocation that resolved.
Resolved == WorkError(200, 0, "", "", "")

\* The errors the work function of the specifications rejects with.
WorkErrors ==
    {ThrottledNoHint, ThrottledHeader, ThrottledInMessage,
     ServerUnavailable, NetworkDown, BadRequest, PlainError}

\* new Error('Request failed after all retries')
AllRetriesFailed == WorkError(0, 0, "", "Request failed after all retries", "")

\* The words the classifiers look for that a message contains.
WordsIn(message) ==
    CASE message = "throttled, retry after: 3" -> {"throttled"}
      [] message = "network down" -> {"network"}
      [] OTHER -> {}

\* String.prototype.includes on the messages above
Includes(message, word) == word \in WordsIn(message)

\* parseInt(text, 10): <<n>>, or <<>> for NaN
ParseInt(text) ==
    CASE text = "0" -> <<0>>
      [] text = "2" -> <<2>>
      [] text = "3" -> <<3>>
      [] OTHER -> <<>>

\* message.match(/retry.after[:\s]+(\d+)/i): <<digits>>, or <<>> for no match
MatchRetryAfter(message) ==
    IF message = "throttled, retry after: 3" THEN <<"3">> ELSE <<>>

isRateLimitError(error) ==
    \/ error.status = 429
    \/ error.statusCode = 429
    \/ error.code = "ThrottledRequest"
    \/ Includes(error.message, "rate limit")
    \/ Includes(error.message, "throttled")

\* A classifier that takes every 4xx and 5xx status for retryable.
isRetryableErrorAnyStatus(error) ==
    \/ error.status >= 400
    \/ error.statusCode >= 400
    \/ error.code \in {"ECONNRESET", "ENOTFOUND", "ECONNREFUSED", "ETIMEDOUT"}
    \/ Includes(error.message, "timeout")
    \/ Includes(error.message, "network")

isRetryableError(error) ==
    \/ error.status \in {500, 502, 503, 504}
    \/ error.statusCode \in {500, 502, 503, 504}
    \/ error.code \in {"ECONNRESET", "ENOTFOUND", "ECONNREFUSED", "ETIMEDOUT"}
    \/ Includes(error.message, "timeout")
    \/ Includes(error.message, "network")

\* extractRetryAfter, in seconds
extractRetryAfter(error) ==
    IF error.header # ""
    THEN LET n == ParseInt(error.header)
         IN  IF n = <<>> \/ n = <<0>> THEN DefaultRetryAfterSecs ELSE n[1]
    ELSE IF MatchRetryAfter(error.message) # <<>>
         THEN ParseInt(MatchRetryAfter(error.message)[1])[1]
         ELSE DefaultRetryAfterSecs

\* calculateBackoffDelay: Math.random() is jitterPercent / 100, in [0, 1)
calculateBackoffDelay(attempt, jitterPercent) ==
    LET exponentialDelay == BaseDelayMs * Pow2(attempt)
        jitter == (jitterPercent * exponentialDelay) \div 1000
    IN  Min(exponentialDelay + jitter, MaxDelayMs)

JitterPercents == {0, 99}

\* executeWithRetry's maxRetries argument: <<>> when not passed
MaxRetriesArgs == {<<>>} \cup {<<n>> : n \in (0 - 1) .. MaxRetriesArg}

\* A call as it enters the for loop. invoked and outcomes record what the
\* work function was asked and answered: the number of times it was invoked
\* and what each invocation settled with (Resolved or the error).
NewCall(arg) ==
    [maxRetries |-> IF arg = <<>> THEN DefaultMaxRetries ELSE arg[1],
     attempt |-> 0,
     pc |-> "loop",
     wakeAt |-> 0,
     lastError |-> <<>>,
     thrown |-> <<>>,
     invoked |-> 0,
     outcomes |-> <<>>]

\* The loop from its condition to its first await or its exit, at time t with
\* cooldown timestamp ra: the loop is left when attempt > maxRetries;
\* otherwise the call waits for the cooldown, or invokes the work function.
StartAttempt(call, t, ra) ==
    IF call.attempt > call.maxRetries
    THEN [call EXCEPT !.pc = "threw",
                      !.thrown = IF call.lastError # <<>> THEN call.lastError
                                 ELSE <<AllRetriesFailed>>]
    ELSE IF ra > t
         THEN [call EXCEPT !.pc = "cooldown", !.wakeAt = t + (ra - t)]
         ELSE [call EXCEPT !.pc = "inflight", !.invoked = call.invoked + 1]

\* A catch block that gives up with a generic error.
CaughtGenericError(call, error, t, jitterPercent) ==
    LET seen == [call EXCEPT !.lastError = <<error>>,
                             !.outcomes = Append(call.outcomes, error)]
    IN  IF (isRateLimitError(error) \/ isRetryableError(error))
           /\ call.attempt < call.maxRetries
        THEN [seen EXCEPT
                 !.pc = "backoff",
                 !.wakeAt = t + calculateBackoffDelay(call.attempt, jitterPercent)]
        ELSE [seen EXCEPT !.pc = "threw", !.thrown = <<AllRetriesFailed>>]

\* A catch block that retries while attempt + 1 < maxRetries.
CaughtOffByOne(call, error, t, jitterPercent) ==
    LET seen == [call EXCEPT !.lastError = <<error>>,
                             !.outcomes = Append(call.outcomes, error)]
    IN  IF (isRateLimitError(error) \/ isRetryableError(error))
           /\ call.attempt + 1 < call.maxRetries
        THEN [seen EXCEPT
                 !.pc = "backoff",
                 !.wakeAt = t + calculateBackoffDelay(call.attempt, jitterPercent)]
        ELSE [seen EXCEPT !.pc = "threw", !.thrown = <<error>>]

\* The catch block, for the error the work function rejected with.
Caught(call, error, t, jitterPercent) ==
    LET seen == [call EXCEPT !.lastError = <<error>>,
                             !.outcomes = Append(call.outcomes, error)]
        retry == [seen EXCEPT
                     !.pc = "backoff",
                     !.wakeAt = t + calculateBackoffDelay(call.attempt,
                                                          jitterPercent)]
        break == [seen EXCEPT !.pc = "threw", !.thrown = <<error>>]
    IN  IF isRateLimitError(error)
        THEN (IF call.attempt < call.maxRetries THEN retry ELSE break)
        ELSE IF isRetryableError(error)
             THEN (IF call.attempt < call.maxRetries THEN retry ELSE break)
             ELSE break

\* executeWithRetry(request, maxRetries) is called.
ExecuteWithRetry(arg) ==
    /\ calls' = Append(calls, StartAttempt(NewCall(arg), clock, retryAfter))
    /\ UNCHANGED <<retryAfter, clock>>
    /\ UNCHANGED nonExecutorVars

\* The cooldown wait of call c is over: the work function is invoked.
CooldownOver(c) ==
    /\ c \in DOMAIN calls
    /\ calls[c].pc = "cooldown"
    /\ clock >= calls[c].wakeAt
    /\ calls' = [calls EXCEPT ![c].pc = "inflight",
                              ![c].invoked = calls[c].invoked + 1]
    /\ UNCHANGED <<retryAfter, clock>>
    /\ UNCHANGED nonExecutorVars

\* The work function of call c resolves.
Resolves(c) ==
    /\ c \in DOMAIN calls
    /\ calls[c].pc = "inflight"
    /\ retryAfter' = 0
    /\ calls' = [calls EXCEPT ![c].pc = "returned",
                              ![c].outcomes = Append(calls[c].outcomes, Resolved)]
    /\ UNCHANGED clock
    /\ UNCHANGED nonExecutorVars

\* The work function of call c rejects with error.
Rejects(c, error, jitterPercent) ==
    /\ c \in DOMAIN calls
    /\ calls[c].pc = "inflight"
    /\ retryAfter' = IF isRateLimitError(error)
                     THEN clock + extractRetryAfter(error) * 1000
                     ELSE retryAfter
    /\ calls' = [calls EXCEPT ![c] = Caught(calls[c], error, clock, jitterPercent)]
    /\ UNCHANGED clock
    /\ UNCHANGED nonExecutorVars

\* The backoff wait of call c is over: attempt++ and the next iteration.
BackoffOver(c) ==
    /\ c \in DOMAIN calls
    /\ calls[c].pc = "backoff"
    /\ clock >= calls[c].wakeAt
    /\ calls' = [calls EXCEPT
                    ![c] = StartAttempt([calls[c] EXCEPT
                                            !.attempt = calls[c].attempt + 1],
                                        clock, retryAfter)]
    /\ UNCHANGED <<retryAfter, clock>>
    /\ UNCHANGED nonExecutorVars

\* The timers (setTimeout) that have not fired.
Timers == {calls[c].wakeAt : c \in {d \in DOMAIN calls :
                                       calls[d].pc \in {"cooldown", "backoff"}}}

\* Time passes, up to the next timer.
TimePasses ==
    /\ \E wakeAt \in Timers :
          /\ wakeAt > clock
          /\ \A other \in Timers : other >= wakeAt
          /\ clock' = wakeAt
    /\ UNCHANGED <<retryAfter, calls>>
    /\ UNCHANGED nonExecutorVars

\* The first call on a fresh executor.
FirstCallStep ==
    /\ calls = <<>>
    /\ \E arg \in MaxRetriesArgs : ExecuteWithRetry(arg)

CooldownOverStep == \E c \in DOMAIN calls : CooldownOver(c)
ResolvesStep == \E c \in DOMAIN calls : Resolves(c)
RejectsStep ==
    \E c \in DOMAIN calls : \E error \in WorkErrors :
        \E jitterPercent \in JitterPercents : Rejects(c, error, jitterPercent)
BackoffOverStep == \E c \in DOMAIN calls : BackoffOver(c)

\* One executeWithRetry call on a fresh executor.
ExecutorNext ==
    \/ FirstCallStep
    \/ CooldownOverStep
    \/ ResolvesStep
    \/ RejectsStep
    \/ BackoffOverStep
    \/ TimePasses

ExecutorSpec == Init /\ [][ExecutorNext]_vars

(***************************************************************************)
(* The batch dispatcher: BatchProcessor.processContacts.                   *)
(***************************************************************************)

\* Array.prototype.slice(start, end), start and end counted from 0
Slice(s, start, end) == SubSeq(s, start + 1, Min(end, Len(s)))

\* A createBatches that steps by batchSize - 1.
RECURSIVE createBatchesOverlapping(_, _, _)
createBatchesOverlapping(list, batchSize, i) ==
    IF i >= Len(list) THEN <<>>
    ELSE <<Slice(list, i, i + batchSize)>>
             \o createBatchesOverlapping(list, batchSize, i + batchSize - 1)

\* createBatches: the groups pushed from index i on
RECURSIVE createBatches(_, _, _)
createBatches(list, batchSize, i) ==
    IF i >= Len(list) THEN <<>>
    ELSE <<Slice(list, i, i + batchSize)>>
             \o createBatches(list, batchSize, i + batchSize)

\* status: 'pending'; messageId and error undefined (0 and "")
PendingResult(contactId) ==
    [contactId |-> contactId, status |-> "pending", messageId |-> 0, error |-> ""]

\* results.find(r => r.contactId === contactId) is rs[i]: rs[i] is the first
\* result with that contact id
FoundByContactId(rs, i, contactId) ==
    /\ rs[i].contactId = contactId
    /\ \A j \in 1 .. i - 1 : rs[j].contactId # contactId

\* results.find(r => r.messageId === messageId) is rs[i]
FoundByMessageId(rs, i, messageId) ==
    /\ rs[i].messageId = messageId
    /\ \A j \in 1 .. i - 1 : rs[j].messageId # messageId

\* The positions of a group whose contact's result is found, and is rs[i].
Hits(rs, batch, i) ==
    {k \in DOMAIN batch : FoundByContactId(rs, i, batch[k])}

\* A group start that marks every result processing.
MarkProcessingAll(rs, batch) ==
    [i \in DOMAIN rs |-> [rs[i] EXCEPT !.status = "processing"]]

\* processBatch, lines 144-149: the results after batch.forEach has marked
\* the contacts of the group processing
MarkProcessing(rs, batch) ==
    [i \in DOMAIN rs |->
        IF Hits(rs, batch, i) # {} THEN [rs[i] EXCEPT !.status = "processing"]
        ELSE rs[i]]

\* One item of the remote batch response; id is the request id (the decimal
\* string of the source, as its number), messageId 0 when the body has no id.
Response(id, status, messageId, message) ==
    [id |-> id, status |-> status, messageId |-> messageId, message |-> message]

\* The message id the remote side gives to the draft of request id of the
\* group whose first contact is at position base + 1 of the contact list.
DraftId(base, id) == 100 + base + id

\* What the remote side answers to a batch of k requests.
CreatedReversed(k, base) ==
    [i \in 1 .. k |-> Response(k + 1 - i, 201, DraftId(base, k + 1 - i), "")]
FirstRejected(k, base) ==
    [i \in 1 .. k |->
        IF i = 1 THEN Response(i, 400, 0, "Invalid recipient")
        ELSE Response(i, 201, DraftId(base, i), "")]
LastMissing(k, base) ==
    [i \in 1 .. k - 1 |-> Response(i, 201, DraftId(base, i), "")]
FirstWithoutId(k, base) ==
    [i \in 1 .. k |->
        IF i = 1 THEN Response(i, 201, 0, "")
        ELSE Response(i, 500, 0, "")]

BatchResponses(k, base) ==
    {CreatedReversed(k, base), FirstRejected(k, base), LastMissing(k, base),
     FirstWithoutId(k, base)}

\* A createBatchDrafts that reads the response list by position.
createBatchDraftsByPosition(k, responses) ==
    [index \in 1 .. k |->
        IF index \notin DOMAIN responses
        THEN [id |-> 0, success |-> FALSE, error |-> "Missing batch response"]
        ELSE LET resp == responses[index]
                 messageId == resp.messageId
             IN  [id |-> messageId,
                  success |-> resp.status >= 200 /\ resp.status < 300
                                /\ messageId # 0,
                  error |-> IF resp.status >= 400 THEN resp.message
                            ELSE IF messageId = 0 THEN "Missing message id"
                            ELSE ""]]

\* GraphClientService.createBatchDrafts on k drafts, for the remote response
\* list: responseMap.get(requestId) is the last response with that id
createBatchDrafts(k, responses) ==
    [index \in 1 .. k |->
        IF \A j \in DOMAIN responses : responses[j].id # index
        THEN [id |-> 0, success |-> FALSE, error |-> "Missing batch response"]
        ELSE LET resp == responses[CHOOSE j \in DOMAIN responses :
                             /\ responses[j].id = index
                             /\ \A l \in j + 1 .. Len(responses) :
                                    responses[l].id # index]
                 messageId == resp.messageId
             IN  [id |-> messageId,
                  success |-> resp.status >= 200 /\ resp.status < 300
                                /\ messageId # 0,
                  error |-> IF resp.status >= 400 THEN resp.message
                            ELSE IF messageId = 0 THEN "Missing message id"
                            ELSE ""]]

\* processBatch, lines 176-185: one result after the outcome of its contact
SetOutcome(result, batchResult) ==
    IF batchResult.success
    THEN [result EXCEPT !.status = "completed", !.messageId = batchResult.id]
    ELSE [result EXCEPT !.status = "failed",
                        !.error = IF batchResult.error = "" THEN "Unknown error"
                                  ELSE batchResult.error]

\* A result after the outcomes at the positions hits of its group are
\* applied to it, in the order of the positions.
RECURSIVE SetOutcomes(_, _, _)
SetOutcomes(result, outcomes, hits) ==
    IF hits = {} THEN result
    ELSE LET k == CHOOSE h \in hits : \A other \in hits : h <= other
         IN  SetOutcomes(SetOutcome(result, outcomes[k]), outcomes, hits \ {k})

\* processBatch, lines 172-186: the results after batch.forEach has applied
\* the per-item outcomes of the group
ApplyBatchResults(rs, batch, outcomes) ==
    [i \in DOMAIN rs |-> SetOutcomes(rs[i], outcomes, Hits(rs, batch, i))]

\* processBatch, lines 172-186: the createdMessageIds it returns
CreatedIds(rs, batch, outcomes) ==
    LET pushed == SelectSeq([k \in DOMAIN batch |-> k],
                            LAMBDA k : /\ \E i \in DOMAIN rs :
                                            FoundByContactId(rs, i, batch[k])
                                       /\ outcomes[k].success)
    IN  [n \in DOMAIN pushed |-> outcomes[pushed[n]].id]

\* onProgress([...results]): the array handed over is a new one, its
\* elements are the result objects of results themselves, which the later
\* transitions assign to (result.status = ...) and never replace. What the
\* holder of the snapshot delivered as snapshot reads from it once the
\* results are rs.
SnapshotRead(snapshot, rs) == [i \in DOMAIN snapshot |-> rs[i]]

\* A catch block that fails every result of the run.
MarkFailedEverywhere(rs, batch, message) ==
    [i \in DOMAIN rs |-> [rs[i] EXCEPT !.status = "failed", !.error = message]]

\* A catch block that only logs the error.
MarkFailedNothing(rs, batch, message) == rs

\* processBatch, lines 195-201: the results after every contact of the group
\* is marked failed with the message of the error caught
MarkFailed(rs, batch, message) ==
    [i \in DOMAIN rs |->
        IF Hits(rs, batch, i) # {}
        THEN [rs[i] EXCEPT !.status = "failed", !.error = message]
        ELSE rs[i]]

\* An attachment pass that puts the contacts of failed uploads back to
\* pending.
ApplyAttachmentResultsRetry(rs, uploaded) ==
    [i \in DOMAIN rs |->
        IF \E k \in DOMAIN uploaded :
               /\ FoundByMessageId(rs, i, uploaded[k].messageId)
               /\ ~uploaded[k].success
        THEN [rs[i] EXCEPT !.status = "pending"]
        ELSE rs[i]]

\* An attachment pass that fails every contact with a draft as soon as one
\* upload failed.
ApplyAttachmentResultsAny(rs, uploaded) ==
    [i \in DOMAIN rs |->
        IF /\ rs[i].messageId # 0
           /\ \E k \in DOMAIN uploaded : ~uploaded[k].success
        THEN [rs[i] EXCEPT !.status = "failed", !.error = "Attachment failed"]
        ELSE rs[i]]

\* attachFilesToDrafts, lines 223-229: the results after the uploader's
\* results are applied; a result is changed by a failed upload whose
\* message id finds it (results.find sees the message ids, which the loop
\* does not change)
ApplyAttachmentResults(rs, uploaded) ==
    [i \in DOMAIN rs |->
        IF \E k \in DOMAIN uploaded :
               /\ FoundByMessageId(rs, i, uploaded[k].messageId)
               /\ ~uploaded[k].success
        THEN LET k == CHOOSE l \in DOMAIN uploaded :
                          /\ FoundByMessageId(rs, i, uploaded[l].messageId)
                          /\ ~uploaded[l].success
                          /\ \A later \in l + 1 .. Len(uploaded) :
                                 ~(/\ FoundByMessageId(rs, i, uploaded[later].messageId)
                                   /\ ~uploaded[later].success)
             IN  [rs[i] EXCEPT !.status = "failed",
                               !.error = IF uploaded[k].error = ""
                                         THEN "Attachment failed"
                                         ELSE uploaded[k].error]
        ELSE rs[i]]

\* AttachmentHandler.attachFileToMultipleDrafts: one result per message id,
\* in order; failing is the set of the messages whose upload throws
attachFileToMultipleDrafts(messageIds, failing) ==
    [k \in DOMAIN messageIds |->
        IF messageIds[k] \in failing
        THEN [messageId |-> messageIds[k], success |-> FALSE,
              error |-> "Upload failed"]
        ELSE [messageId |-> messageIds[k], success |-> TRUE, error |-> ""]]

\* The sets of failing uploads of the specifications: none, the first
\* message, the third message, all of them.
FailingUploads(messageIds) ==
    {{}, {messageIds[k] : k \in {1} \cap DOMAIN messageIds},
     {messageIds[k] : k \in {3} \cap DOMAIN messageIds},
     {messageIds[k] : k \in DOMAIN messageIds}}


\* Contact lists with pairwise distinct ids: 1 .. n, in either order.
Ascending(n) == [i \in 1 .. n |-> i]
Descending(n) == [i \in 1 .. n |-> n + 1 - i]
ContactLists(maxContacts) ==
    {Ascending(n) : n \in 0 .. maxContacts}
        \cup {Descending(n) : n \in 0 .. maxContacts}

\* createBatches is applied to the contact list.
CreateBatches ==
    /\ dispatchPc = "idle"
    /\ batches' = createBatches(contacts, BATCH_SIZE, 0)
    /\ dispatchPc' = "batched"
    /\ UNCHANGED <<contacts, attachment, results, window, outstanding,
                   batchResults, createdMessageIds, attachmentResults, progress>>
    /\ UNCHANGED nonDispatchVars

\* createBatches on any contact list.
CreateBatchesInit ==
    /\ SchedulerInit
    /\ ExecutorInit
    /\ contacts \in ContactLists(MaxContacts)
    /\ DispatchIdle
    /\ UploadInit
    /\ GuardInit
    /\ RunInit
    /\ BatchInit

CreateBatchesNext == CreateBatches

CreateBatchesSpec == CreateBatchesInit /\ [][CreateBatchesNext]_vars

\* The contact lists of a dispatch run: empty, one contact, one group and one
\* contact more, and the longest list.
RunContactLists(maxContacts) ==
    {Ascending(n) : n \in {0, 1, BATCH_SIZE + 1, maxContacts}}

\* A window that holds every group from i on.
WindowGroupsUnlimited(groups, i) == {b \in DOMAIN groups : b > i}

\* The position in batches of the groups of the window starting at i.
WindowGroups(groups, i) ==
    LET concurrency == Min(MAX_CONCURRENT_BATCHES, Len(groups))
    IN  {b \in DOMAIN groups : b > i /\ b <= i + concurrency}

\* processBatchesInParallel, lines 109-122: the groups of the window from
\* group b on are started one after the other, each up to its await: its
\* contacts are marked processing and onProgress gets a snapshot. st is
\* <<results, progress>>.
RECURSIVE StartGroups(_, _, _, _)
StartGroups(st, groups, b, last) ==
    IF b > last THEN st
    ELSE LET rs == MarkProcessing(st[1], groups[b])
         IN  StartGroups(<<rs, Append(st[2], rs)>>, groups, b + 1, last)

\* batchResults.flat() of the window starting at i, done holding what each
\* group returned
RECURSIVE FlatWindow(_, _, _)
FlatWindow(done, b, last) ==
    IF b > last THEN <<>>
    ELSE done[b] \o FlatWindow(done, b + 1, last)

\* processContacts is called: the results are made and the token is awaited.
ProcessContacts(list, file) ==
    /\ dispatchPc = "idle"
    /\ contacts' = list
    /\ attachment' = file
    /\ results' = [i \in DOMAIN list |-> PendingResult(list[i])]
    /\ dispatchPc' = "token"
    /\ UNCHANGED <<batches, window, outstanding, batchResults,
                   createdMessageIds, attachmentResults, progress>>
    /\ UNCHANGED nonDispatchVars

\* A token check made after the first group was started.
TokenInvalidLate ==
    /\ dispatchPc = "token"
    /\ dispatchPc' = "threw"
    /\ batches' = createBatches(contacts, BATCH_SIZE, 0)
    /\ results' = IF batches' = <<>> THEN results
                  ELSE MarkProcessing(results, batches'[1])
    /\ progress' = Append(progress, results')
    /\ UNCHANGED <<contacts, attachment, window, outstanding, batchResults,
                   createdMessageIds, attachmentResults>>
    /\ UNCHANGED nonDispatchVars

\* ensureValidToken resolves to false: processContacts throws.
TokenInvalid ==
    /\ dispatchPc = "token"
    /\ dispatchPc' = "threw"
    /\ UNCHANGED <<contacts, attachment, batches, results, window, outstanding,
                   batchResults, createdMessageIds, attachmentResults, progress>>
    /\ UNCHANGED nonDispatchVars

\* The groups of the window starting at i are started; with no group left
\* the loop is over and the drafts made get the attachment, when there is one
\* and a draft was made.
Proceed(groups, rs, pg, i, created) ==
    IF WindowGroups(groups, i) # {}
    THEN LET last == i + Cardinality(WindowGroups(groups, i))
             st == StartGroups(<<rs, pg>>, groups, i + 1, last)
         IN  /\ results' = st[1]
             /\ progress' = st[2]
             /\ window' = i
             /\ outstanding' = WindowGroups(groups, i)
             /\ batchResults' = [b \in DOMAIN groups |-> <<>>]
             /\ createdMessageIds' = created
             /\ dispatchPc' = "groups"
    ELSE /\ results' = rs
         /\ progress' = pg
         /\ window' = i
         /\ outstanding' = {}
         /\ batchResults' = batchResults
         /\ createdMessageIds' = created
         /\ dispatchPc' = IF attachment /\ created # <<>> THEN "attaching"
                          ELSE "returned"

\* ensureValidToken resolves to true: the groups are made and the first
\* window is started.
TokenValid ==
    /\ dispatchPc = "token"
    /\ batches' = createBatches(contacts, BATCH_SIZE, 0)
    /\ Proceed(batches', results, progress, 0, <<>>)
    /\ UNCHANGED <<contacts, attachment, attachmentResults>>
    /\ UNCHANGED nonDispatchVars

\* Group b is done with results rs and the ids made: when it was the last of
\* its window, Promise.all resolves, the ids of the window are pushed and
\* the loop goes on.
GroupDone(b, rs, made) ==
    LET pg == Append(progress, rs)
        done == [batchResults EXCEPT ![b] = made]
        concurrency == Min(MAX_CONCURRENT_BATCHES, Len(batches))
    IN  IF outstanding = {b}
        THEN Proceed(batches, rs, pg, window + concurrency,
                     createdMessageIds
                         \o FlatWindow(done, window + 1,
                                       window + Cardinality(WindowGroups(batches, window))))
        ELSE /\ results' = rs
             /\ progress' = pg
             /\ batchResults' = done
             /\ outstanding' = outstanding \ {b}
             /\ UNCHANGED <<window, createdMessageIds, dispatchPc>>

\* The createBatchDrafts call of group b gets the remote response.
BatchReturns(b, responses) ==
    /\ dispatchPc = "groups"
    /\ b \in outstanding
    /\ LET outcomes == createBatchDrafts(Len(batches[b]), responses)
       IN  GroupDone(b, ApplyBatchResults(results, batches[b], outcomes),
                     CreatedIds(results, batches[b], outcomes))
    /\ UNCHANGED <<contacts, attachment, batches, attachmentResults>>
    /\ UNCHANGED nonDispatchVars

\* The createBatchDrafts call of group b throws (the request failed as a
\* whole).
BatchThrows(b) ==
    /\ dispatchPc = "groups"
    /\ b \in outstanding
    /\ GroupDone(b, MarkFailed(results, batches[b], "Network request failed"),
                 <<>>)
    /\ UNCHANGED <<contacts, attachment, batches, attachmentResults>>
    /\ UNCHANGED nonDispatchVars

\* attachFileToMultipleDrafts resolves: the failed uploads are applied and
\* onProgress gets a last snapshot. (It catches the error of every upload,
\* so it does not reject.)
AttachReturns(failing) ==
    /\ dispatchPc = "attaching"
    /\ attachmentResults' = attachFileToMultipleDrafts(createdMessageIds, failing)
    /\ results' = ApplyAttachmentResults(results, attachmentResults')
    /\ progress' = Append(progress, results')
    /\ dispatchPc' = "returned"
    /\ UNCHANGED <<contacts, attachment, batches, window, outstanding,
                   batchResults, createdMessageIds>>
    /\ UNCHANGED nonDispatchVars

ProcessContactsStep(maxContacts) ==
    \E list \in RunContactLists(maxContacts) : \E file \in BOOLEAN :
        ProcessContacts(list, file)

BatchReturnsStep ==
    \E b \in outstanding :
        \E responses \in BatchResponses(Len(batches[b]), (b - 1) * BATCH_SIZE) :
            BatchReturns(b, responses)

BatchThrowsStep == \E b \in outstanding : BatchThrows(b)

AttachReturnsStep ==
    \E failing \in FailingUploads(createdMessageIds) : AttachReturns(failing)

\* One dispatch run.
DispatchNext ==
    \/ ProcessContactsStep(MaxContacts)
    \/ TokenInvalid
    \/ TokenValid
    \/ BatchReturnsStep
    \/ BatchThrowsStep
    \/ AttachReturnsStep

DispatchSpec == Init /\ [][DispatchNext]_vars

\* The answers the remote side gives to one request of a batch: a draft
\* made, a request refused, a 2xx without a message id.
ResponseKinds == {"created", "refused", "noId"}
ResponseOfKind(id, kind) ==
    IF kind = "created" THEN Response(id, 201, DraftId(0, id), "")
    ELSE IF kind = "refused" THEN Response(id, 400, 0, "Invalid recipient")
    ELSE Response(id, 200, 0, "")

\* The response lists for a batch of k requests that hold each request id at
\* most once: every subset of the ids 1 .. k, in every order, with every
\* answer.
PermutedResponses(k) ==
    UNION {{[j \in 1 .. n |-> ResponseOfKind(ids[j], kinds[j])] :
               ids \in {f \in [1 .. n -> 1 .. k] :
                           \A a, b \in 1 .. n : a # b => f[a] # f[b]},
               kinds \in [1 .. n -> ResponseKinds]} : n \in 0 .. k}

\* The contact lists of one group, of 1 .. maxGroup contacts.
GroupContactLists(maxGroup) ==
    {Ascending(n) : n \in 1 .. maxGroup} \cup {Descending(n) : n \in 1 .. maxGroup}

ProcessGroupStep(maxGroup) ==
    \E list \in GroupContactLists(maxGroup) : \E file \in BOOLEAN :
        ProcessContacts(list, file)

PermutedReturnsStep ==
    \E b \in outstanding :
        \E responses \in PermutedResponses(Len(batches[b])) :
            BatchReturns(b, responses)

\* A dispatch run of one small group, whose batch call is answered with any
\* permutation of any subset of its request ids.
AttributionNext ==
    \/ ProcessGroupStep(MaxGroup)
    \/ TokenValid
    \/ PermutedReturnsStep
    \/ AttachReturnsStep

AttributionSpec == Init /\ [][AttributionNext]_vars

(***************************************************************************)
(* The attachment uploader: AttachmentHandler.attachFileToMultipleDrafts.  *)
(***************************************************************************)

\* A chunkArray that keeps only the groups that are full.
RECURSIVE chunkArrayFullOnly(_, _, _)
chunkArrayFullOnly(array, size, i) ==
    IF i + size > Len(array) THEN <<>>
    ELSE <<Slice(array, i, i + size)>> \o chunkArrayFullOnly(array, size, i + size)

\* A chunkArray that makes one group of the whole array.
chunkArrayWhole(array, size, i) == IF array = <<>> THEN <<>> ELSE <<array>>

\* chunkArray: the groups pushed from index i on
RECURSIVE chunkArray(_, _, _)
chunkArray(array, size, i) ==
    IF i >= Len(array) THEN <<>>
    ELSE <<Slice(array, i, i + size)>> \o chunkArray(array, size, i + size)

\* A chunk end one byte further on.
ChunkEndInclusive(uploadedBytes, totalSize) ==
    Min(uploadedBytes + CHUNK_SIZE, totalSize - 1)

\* uploadFileInChunks, line 35: the last byte of the chunk that starts at
\* uploadedBytes
ChunkEnd(uploadedBytes, totalSize) ==
    Min(uploadedBytes + CHUNK_SIZE - 1, totalSize - 1)

\* What the promise of one message resolves with (lines 71 and 74-78); a
\* result without an error has error "".
UploadSucceeded(messageId) ==
    [messageId |-> messageId, success |-> TRUE, error |-> ""]
UploadFailed(messageId, message) ==
    [messageId |-> messageId, success |-> FALSE, error |-> message]

\* A request of an upload as the remote service answered it: the creation
\* of the upload session, or the PUT of the bytes first .. last.
SessionRequest(ok) == [kind |-> "session", first |-> 0, last |-> 0, ok |-> ok]
ChunkRequest(first, last, ok) ==
    [kind |-> "chunk", first |-> first, last |-> last, ok |-> ok]

\* chunk.map(async messageId => ...), lines 68-80: each message of the group
\* runs up to its first await, the creation of its upload session. position
\* is the place of the message in messageIds.
StartedPromises(chunk, c) ==
    [k \in DOMAIN chunk |->
        [messageId |-> chunk[k], position |-> (c - 1) * UploadConcurrency + k,
         pc |-> "session", uploadedBytes |-> 0, result |-> <<>>]]

\* The for loop of attachFileToMultipleDrafts at group c with the results
\* rs: the group's promises are started, or the call resolves with rs.
UploadChunk(chunks, c, rs) ==
    /\ uploadResults' = rs
    /\ IF c <= Len(chunks)
       THEN /\ uploadChunk' = c
            /\ promises' = StartedPromises(chunks[c], c)
            /\ uploadPc' = "uploading"
       ELSE /\ uploadChunk' = c
            /\ promises' = <<>>
            /\ uploadPc' = "resolved"

\* The message ids the uploader is given: the ids of the drafts made.
UploadLists(maxUploads) == {[i \in 1 .. n |-> 100 + i] : n \in 0 .. maxUploads}

\* The file sizes: an empty file, one full chunk, several chunks.
FileSizes(maxFileSize) == {0, CHUNK_SIZE, maxFileSize}

\* attachFileToMultipleDrafts is called.
AttachFileToMultipleDrafts(messageIds, size) ==
    /\ uploadPc = "idle"
    /\ uploadIds' = messageIds
    /\ uploadFile' = size
    /\ uploadChunks' = chunkArray(messageIds, UploadConcurrency, 0)
    /\ served' = [i \in DOMAIN messageIds |-> <<>>]
    /\ UploadChunk(uploadChunks', 1, <<>>)
    /\ UNCHANGED nonUploadVars

\* Promise k of the group settles with result, the request answered being
\* logged: when it was the last of the group to settle, Promise.all
\* resolves, the results of the group are pushed in the order of the group
\* and the loop goes on.
Settles(k, result, request) ==
    LET after == [promises EXCEPT ![k].pc = "settled", ![k].result = <<result>>]
    IN  /\ served' = [served EXCEPT ![promises[k].position] = Append(@, request)]
        /\ IF \A j \in DOMAIN after : after[j].pc = "settled"
           THEN UploadChunk(uploadChunks, uploadChunk + 1,
                            uploadResults
                                \o [j \in DOMAIN after |-> after[j].result[1]])
           ELSE /\ promises' = after
                /\ UNCHANGED <<uploadPc, uploadChunk, uploadResults>>
        /\ UNCHANGED <<uploadIds, uploadFile, uploadChunks>>
        /\ UNCHANGED nonUploadVars

\* createUploadSession resolves (and file.arrayBuffer after it):
\* uploadFileInChunks puts the first chunk, or returns for an empty file.
SessionCreated(k) ==
    /\ uploadPc = "uploading"
    /\ k \in DOMAIN promises
    /\ promises[k].pc = "session"
    /\ IF 0 < uploadFile
       THEN /\ promises' = [promises EXCEPT ![k].pc = "chunk"]
            /\ served' = [served EXCEPT ![promises[k].position] =
                                            Append(@, SessionRequest(TRUE))]
            /\ UNCHANGED <<uploadIds, uploadFile, uploadPc, uploadChunks,
                           uploadChunk, uploadResults>>
            /\ UNCHANGED nonUploadVars
       ELSE Settles(k, UploadSucceeded(promises[k].messageId), SessionRequest(TRUE))

\* createUploadSession (or file.arrayBuffer) rejects.
SessionFails(k) ==
    /\ uploadPc = "uploading"
    /\ k \in DOMAIN promises
    /\ promises[k].pc = "session"
    /\ Settles(k, UploadFailed(promises[k].messageId, "Session refused"),
               SessionRequest(FALSE))

\* uploadFileChunk resolves: the next chunk follows after the delay, or the
\* upload is complete.
ChunkUploaded(k) ==
    /\ uploadPc = "uploading"
    /\ k \in DOMAIN promises
    /\ promises[k].pc = "chunk"
    /\ LET chunkEnd == ChunkEnd(promises[k].uploadedBytes, uploadFile)
           request == ChunkRequest(promises[k].uploadedBytes, chunkEnd, TRUE)
       IN  IF chunkEnd + 1 < uploadFile
           THEN /\ promises' = [promises EXCEPT ![k].pc = "delay",
                                                ![k].uploadedBytes = chunkEnd + 1]
                /\ served' = [served EXCEPT ![promises[k].position] =
                                                Append(@, request)]
                /\ UNCHANGED <<uploadIds, uploadFile, uploadPc, uploadChunks,
                               uploadChunk, uploadResults>>
                /\ UNCHANGED nonUploadVars
           ELSE Settles(k, UploadSucceeded(promises[k].messageId), request)

\* uploadFileChunk rejects: uploadFileInChunks and attachFileToDraft rethrow.
ChunkFails(k) ==
    /\ uploadPc = "uploading"
    /\ k \in DOMAIN promises
    /\ promises[k].pc = "chunk"
    /\ Settles(k, UploadFailed(promises[k].messageId, "Upload failed"),
               ChunkRequest(promises[k].uploadedBytes,
                            ChunkEnd(promises[k].uploadedBytes, uploadFile),
                            FALSE))

\* The 100 ms between two chunks are over: the next chunk is put.
DelayOver(k) ==
    /\ uploadPc = "uploading"
    /\ k \in DOMAIN promises
    /\ promises[k].pc = "delay"
    /\ promises' = [promises EXCEPT ![k].pc = "chunk"]
    /\ UNCHANGED <<uploadIds, uploadFile, uploadPc, uploadChunks, uploadChunk,
                   uploadResults, served>>
    /\ UNCHANGED nonUploadVars

AttachFileToMultipleDraftsStep(maxUploads, maxFileSize) ==
    \E messageIds \in UploadLists(maxUploads) : \E size \in FileSizes(maxFileSize) :
        AttachFileToMultipleDrafts(messageIds, size)

SessionCreatedStep == \E k \in DOMAIN promises : SessionCreated(k)
SessionFailsStep == \E k \in DOMAIN promises : SessionFails(k)
ChunkUploadedStep == \E k \in DOMAIN promises : ChunkUploaded(k)
ChunkFailsStep == \E k \in DOMAIN promises : ChunkFails(k)
DelayOverStep == \E k \in DOMAIN promises : DelayOver(k)

\* One attachFileToMultipleDrafts call.
UploadNext ==
    \/ AttachFileToMultipleDraftsStep(MaxUploads, MaxFileSize)
    \/ SessionCreatedStep
    \/ SessionFailsStep
    \/ ChunkUploadedStep
    \/ ChunkFailsStep
    \/ DelayOverStep

UploadSpec == Init /\ [][UploadNext]_vars

(***************************************************************************)
(* The token guard: TokenManager.ensureValidToken and refreshToken, with   *)
(* the credential held by GraphClientService.                              *)
(***************************************************************************)

\* Date.now() >= tokens.expiresAt - bufferTime
isTokenExpired(held, t) == t >= held.expiresAt - BufferMinutes

\* The credential window.electronAPI.refreshToken resolves with at time t.
NewTokens(t) ==
    [present |-> TRUE, expiresAt |-> t + TokenLifetime, refreshToken |-> "r2"]

\* The stored credentials the guard is initialized with: expired with and
\* without a refresh token, and one that expires after one step of the clock.
InitialTokens ==
    {[present |-> TRUE, expiresAt |-> 0, refreshToken |-> "r1"],
     [present |-> TRUE, expiresAt |-> 0, refreshToken |-> ""],
     [present |-> TRUE, expiresAt |-> BufferMinutes + GuardStep,
      refreshToken |-> "r1"]}

\* An ensureValidToken call up to its first await: getTokens has returned
\* the credential held now. ipc tells whether the call's refresh reached
\* window.electronAPI.refreshToken.
NewTokenCall(held) ==
    [pc |-> "getTokens", read |-> held, ipc |-> FALSE, result |-> FALSE]

Returned(call, value) == [call EXCEPT !.pc = "returned", !.result = value]

\* A refreshToken that does not look at the flag.
EnterRefreshUnguarded(call, mutex, held) ==
    <<[call EXCEPT !.pc = "refreshing",
                   !.ipc = held.present /\ held.refreshToken # ""], TRUE>>

\* refreshToken up to its first await, as <<the call, refreshMutex>>: behind
\* a set flag the call sleeps in the polling loop; otherwise it sets the
\* flag and calls graphService.refreshTokens, which reaches the remote
\* refresh when a refresh token is held and rejects at once when not.
EnterRefresh(call, mutex, held) ==
    IF mutex
    THEN <<[call EXCEPT !.pc = "polling"], mutex>>
    ELSE <<[call EXCEPT !.pc = "refreshing",
                        !.ipc = held.present /\ held.refreshToken # ""], TRUE>>

\* TokenManager.initialize with stored tokens: graphService.initialize
Initialize(stored) ==
    /\ tokens' = stored
    /\ UNCHANGED <<refreshMutex, guardClock, tokenCalls>>
    /\ UNCHANGED nonGuardVars

\* ensureValidToken is called.
EnsureValidToken ==
    /\ tokenCalls' = Append(tokenCalls, NewTokenCall(tokens))
    /\ UNCHANGED <<tokens, refreshMutex, guardClock>>
    /\ UNCHANGED nonGuardVars

\* Call c goes on after await getTokens: no credential is false, a
\* credential that is not expired is true, an expired one goes to
\* refreshToken.
GotTokens(c) ==
    /\ c \in DOMAIN tokenCalls
    /\ tokenCalls[c].pc = "getTokens"
    /\ LET call == tokenCalls[c]
           entered == EnterRefresh(call, refreshMutex, tokens)
       IN  IF ~call.read.present
           THEN /\ tokenCalls' = [tokenCalls EXCEPT ![c] = Returned(call, FALSE)]
                /\ UNCHANGED refreshMutex
           ELSE IF isTokenExpired(call.read, guardClock)
           THEN /\ tokenCalls' = [tokenCalls EXCEPT ![c] = entered[1]]
                /\ refreshMutex' = entered[2]
           ELSE /\ tokenCalls' = [tokenCalls EXCEPT ![c] = Returned(call, TRUE)]
                /\ UNCHANGED refreshMutex
    /\ UNCHANGED <<tokens, guardClock>>
    /\ UNCHANGED nonGuardVars

\* The remote refresh of call c resolves: the new credential is held, the
\* flag is cleared, the call returns true.
RefreshSucceeds(c) ==
    /\ c \in DOMAIN tokenCalls
    /\ tokenCalls[c].pc = "refreshing"
    /\ tokenCalls[c].ipc
    /\ tokens' = NewTokens(guardClock)
    /\ refreshMutex' = FALSE
    /\ tokenCalls' = [tokenCalls EXCEPT ![c] = Returned(tokenCalls[c], TRUE)]
    /\ UNCHANGED guardClock
    /\ UNCHANGED nonGuardVars

\* A refreshToken without the finally block: a rejected refresh leaves the
\* flag set.
RefreshFailsKeepsFlag(c) ==
    /\ c \in DOMAIN tokenCalls
    /\ tokenCalls[c].pc = "refreshing"
    /\ tokenCalls' = [tokenCalls EXCEPT ![c] = Returned(tokenCalls[c], FALSE)]
    /\ UNCHANGED <<tokens, refreshMutex, guardClock>>
    /\ UNCHANGED nonGuardVars

\* graphService.refreshTokens of call c rejects (no refresh token, or the
\* remote refresh failed): the flag is cleared, the call returns false.
RefreshFails(c) ==
    /\ c \in DOMAIN tokenCalls
    /\ tokenCalls[c].pc = "refreshing"
    /\ refreshMutex' = FALSE
    /\ tokenCalls' = [tokenCalls EXCEPT ![c] = Returned(tokenCalls[c], FALSE)]
    /\ UNCHANGED <<tokens, guardClock>>
    /\ UNCHANGED nonGuardVars

\* The 100 ms sleep of polling call c is over: behind a set flag it sleeps
\* again, otherwise it returns true.
PollWakes(c) ==
    /\ c \in DOMAIN tokenCalls
    /\ tokenCalls[c].pc = "polling"
    /\ tokenCalls' = IF refreshMutex THEN tokenCalls
                     ELSE [tokenCalls EXCEPT ![c] = Returned(tokenCalls[c], TRUE)]
    /\ UNCHANGED <<tokens, refreshMutex, guardClock>>
    /\ UNCHANGED nonGuardVars

GuardTimePasses ==
    /\ guardClock + GuardStep <= MaxGuardClock
    /\ guardClock' = guardClock + GuardStep
    /\ UNCHANGED <<tokens, refreshMutex, tokenCalls>>
    /\ UNCHANGED nonGuardVars

InitializeStep ==
    /\ tokens = NoTokens
    /\ \E stored \in InitialTokens : Initialize(stored)

EnsureValidTokenStep(maxCallers) ==
    /\ Len(tokenCalls) < maxCallers
    /\ EnsureValidToken

GotTokensStep == \E c \in DOMAIN tokenCalls : GotTokens(c)
RefreshSucceedsStep == \E c \in DOMAIN tokenCalls : RefreshSucceeds(c)
RefreshFailsStep == \E c \in DOMAIN tokenCalls : RefreshFails(c)
PollWakesStep == \E c \in DOMAIN tokenCalls : PollWakes(c)

\* The token guard with concurrent callers.
GuardNext ==
    \/ InitializeStep
    \/ EnsureValidTokenStep(MaxCallers)
    \/ GotTokensStep
    \/ RefreshSucceedsStep
    \/ RefreshFailsStep
    \/ PollWakesStep
    \/ GuardTimePasses

GuardSpec == Init /\ [][GuardNext]_vars

\* The token guard when every await settles: getTokens resolves, the
\* refresh call resolves or rejects, and the 100 ms timer of a polling call
\* fires.
FairGuardSpec ==
    /\ GuardSpec
    /\ WF_vars(GotTokensStep)
    /\ WF_vars(RefreshSucceedsStep \/ RefreshFailsStep)
    /\ \A c \in 1 .. MaxCallers : WF_vars(PollWakes(c))

(***************************************************************************)
(* One run of a scheduler job: runSchedulerJob up to its final update.     *)
(***************************************************************************)

\* String.prototype.trim, on the category names of the model
Trim(name) == IF name = " " THEN "" ELSE name

\* job.categoryName && job.categoryName.trim()
HasCategory(job) == job.categoryName # "" /\ Trim(job.categoryName) # ""

\* A request as the remote service answered it.
GraphRequest(method, messageId, ok) ==
    [method |-> method, messageId |-> messageId, ok |-> ok]

\* An entry of failedMessageIds
FailedMessage(messageId) ==
    [messageId |-> messageId, error |-> "Graph request failed"]

\* The for loop at message i: its first request is awaited, or the loop is
\* over.
LoopAt(job, i) ==
    IF i > Len(job.messageIds) THEN "returned"
    ELSE IF HasCategory(job) THEN "patch" ELSE "move"

\* A catch block that leaves the loop.
NextAfterFailureBreaks(job, i) == Len(job.messageIds) + 1

\* The message the loop goes on with after the catch block of message i.
NextAfterFailure(job, i) == i + 1

\* The jobs a run is given: up to maxMessages distinct message ids; no
\* category, a blank one, a category.
RunMessageIds == <<"m1", "m2", "m3", "m4">>
RunJobs(maxMessages) ==
    [messageIds : {SubSeq(RunMessageIds, 1, n) : n \in 0 .. maxMessages},
     categoryName : {"", " ", "Sorted"}]

\* What getStoredTokens resolves with.
StoredTokenKinds == {"none", "valid", "expired", "expiredNoRefreshToken"}

\* runSchedulerJob is called.
RunSchedulerJob(job) ==
    /\ runPc = "idle"
    /\ runJob' = job
    /\ runPc' = "tokens"
    /\ UNCHANGED <<runIndex, runSucceeded, runFailed, graphRequests>>
    /\ UNCHANGED nonRunVars

\* getStoredTokens resolves: without tokens the run throws; expired tokens
\* with a refresh token are refreshed; otherwise the folder is resolved.
StoredTokensRead(kind) ==
    /\ runPc = "tokens"
    /\ runPc' = CASE kind = "none" -> "threw"
                  [] kind = "expired" -> "refresh"
                  [] OTHER -> "folder"
    /\ UNCHANGED <<runJob, runIndex, runSucceeded, runFailed, graphRequests>>
    /\ UNCHANGED nonRunVars

RefreshResolves ==
    /\ runPc = "refresh"
    /\ runPc' = "folder"
    /\ UNCHANGED <<runJob, runIndex, runSucceeded, runFailed, graphRequests>>
    /\ UNCHANGED nonRunVars

RefreshRejects ==
    /\ runPc = "refresh"
    /\ runPc' = "threw"
    /\ UNCHANGED <<runJob, runIndex, runSucceeded, runFailed, graphRequests>>
    /\ UNCHANGED nonRunVars

\* ensureCampaignFolder resolves: the loop starts.
FolderResolves ==
    /\ runPc = "folder"
    /\ runIndex' = 1
    /\ runPc' = LoopAt(runJob, 1)
    /\ UNCHANGED <<runJob, runSucceeded, runFailed, graphRequests>>
    /\ UNCHANGED nonRunVars

FolderRejects ==
    /\ runPc = "folder"
    /\ runPc' = "threw"
    /\ UNCHANGED <<runJob, runIndex, runSucceeded, runFailed, graphRequests>>
    /\ UNCHANGED nonRunVars

\* The category PATCH of the current message resolves: its move is posted.
PatchResolves ==
    /\ runPc = "patch"
    /\ graphRequests' = Append(graphRequests,
                               GraphRequest("PATCH", runJob.messageIds[runIndex], TRUE))
    /\ runPc' = "move"
    /\ UNCHANGED <<runJob, runIndex, runSucceeded, runFailed>>
    /\ UNCHANGED nonRunVars

\* The catch block of the current message, and the loop going on.
MessageFails ==
    /\ runFailed' = Append(runFailed, FailedMessage(runJob.messageIds[runIndex]))
    /\ runIndex' = NextAfterFailure(runJob, runIndex)
    /\ runPc' = LoopAt(runJob, runIndex')
    /\ UNCHANGED <<runJob, runSucceeded>>
    /\ UNCHANGED nonRunVars

\* The category PATCH of the current message rejects.
PatchRejects ==
    /\ runPc = "patch"
    /\ graphRequests' = Append(graphRequests,
                               GraphRequest("PATCH", runJob.messageIds[runIndex], FALSE))
    /\ MessageFails

\* The move of the current message resolves.
MoveResolves ==
    /\ runPc = "move"
    /\ graphRequests' = Append(graphRequests,
                               GraphRequest("POST", runJob.messageIds[runIndex], TRUE))
    /\ runSucceeded' = Append(runSucceeded, runJob.messageIds[runIndex])
    /\ runIndex' = runIndex + 1
    /\ runPc' = LoopAt(runJob, runIndex')
    /\ UNCHANGED <<runJob, runFailed>>
    /\ UNCHANGED nonRunVars

\* The move of the current message rejects.
MoveRejects ==
    /\ runPc = "move"
    /\ graphRequests' = Append(graphRequests,
                               GraphRequest("POST", runJob.messageIds[runIndex], FALSE))
    /\ MessageFails

RunSchedulerJobStep(maxMessages) ==
    \E job \in RunJobs(maxMessages) : RunSchedulerJob(job)

StoredTokensReadStep == \E kind \in StoredTokenKinds : StoredTokensRead(kind)

\* One run.
RunNext ==
    \/ RunSchedulerJobStep(MaxRunMessages)
    \/ StoredTokensReadStep
    \/ RefreshResolves
    \/ RefreshRejects
    \/ FolderResolves
    \/ FolderRejects
    \/ PatchResolves
    \/ PatchRejects
    \/ MoveResolves
    \/ MoveRejects

RunSpec == Init /\ [][RunNext]_vars

(***************************************************************************)
(* BatchRateLimiter.executeBatch: the requests go through one RateLimiter, *)
(* a chunk of MAX_CONCURRENT_REQUESTS at a time, each chunk awaited with   *)
(* Promise.all. The calls of the executor are the calls executeBatch has   *)
(* made, in request order: call r is request r.                            *)
(***************************************************************************)

\* chunks[i]: the requests (by position) of the chunk that starts at index i
RequestChunks(count) ==
    chunkArray([r \in 1 .. count |-> r], MAX_CONCURRENT_REQUESTS, 0)

\* chunk.map(request => rateLimiter.executeWithRetry(request)): every call
\* of the chunk runs to its first await before the next one is made. None
\* of them changes retryAfter or the clock on the way.
StartedCalls(chunk, t, ra) ==
    [r \in 1 .. Len(chunk) |-> StartAttempt(NewCall(<<>>), t, ra)]

\* Promise.all(chunkPromises) has rejected: some call of the chunk threw.
BatchThrew == \E c \in DOMAIN calls : calls[c].pc = "threw"

\* The chunk being awaited has resolved: all its calls returned.
ChunkResolved ==
    /\ calls # <<>>
    /\ \A c \in DOMAIN calls : calls[c].pc = "returned"

\* executeBatch has returned results.
BatchReturned == ChunkResolved /\ Len(calls) = batchRequests

\* executeBatch(requests) is called on a fresh BatchRateLimiter.
ExecuteBatch(count) ==
    /\ batchRequests = 0
    /\ calls = <<>>
    /\ count >= 1
    /\ batchRequests' = count
    /\ calls' = StartedCalls(RequestChunks(count)[1], clock, retryAfter)
    /\ UNCHANGED <<retryAfter, clock>>
    /\ UNCHANGED nonBatchVars

\* The awaited chunk has resolved and there is a next one: its calls are
\* made.
NextChunk ==
    /\ ChunkResolved
    /\ Len(calls) < batchRequests
    /\ calls' = calls \o
                StartedCalls(RequestChunks(batchRequests)
                                [Len(calls) \div MAX_CONCURRENT_REQUESTS + 1],
                             clock, retryAfter)
    /\ UNCHANGED <<retryAfter, clock, batchRequests>>
    /\ UNCHANGED nonBatchVars

\* The answers the remote service gives the requests of a batch: success,
\* throttling, or an error that is not retried.
BatchErrors == {ThrottledNoHint, BadRequest}

\* The rejections the first n calls have seen so far.
RECURSIVE Rejections(_, _)
Rejections(cs, n) ==
    IF n = 0 THEN 0
    ELSE Rejections(cs, n - 1)
         + Cardinality({i \in DOMAIN cs[n].outcomes :
                           cs[n].outcomes[i] # Resolved})

ExecuteBatchStep == \E count \in 1 .. MaxBatchRequests : ExecuteBatch(count)
BatchRejectsStep ==
    /\ Rejections(calls, Len(calls)) < MaxRejections
    /\ \E c \in DOMAIN calls : \E error \in BatchErrors : Rejects(c, error, 0)

\* One executeBatch call.
BatchNext ==
    \/ ExecuteBatchStep
    \/ NextChunk
    \/ CooldownOverStep
    \/ ResolvesStep
    \/ BatchRejectsStep
    \/ BackoffOverStep
    \/ TimePasses

BatchSpec == Init /\ [][BatchNext]_vars

(***************************************************************************)
(* Properties.                                                             *)
(***************************************************************************)

\* A run of job jobId is awaited by some poll callback.
InFlight(jobId) == \E t \in DOMAIN ticks : Head(ticks[t]).id = jobId

\* The ids of the jobs in the table, and the ids a request may name.
JobIds == {schedulerJobs[i].id : i \in DOMAIN schedulerJobs}
AnyId == RequestIds(WideJobs)

\* Job jobId is in the table before and after the step.
Kept(jobId) == HasJob(schedulerJobs, jobId) /\ HasJob(schedulerJobs', jobId)

Before(jobId) == GetJob(schedulerJobs, jobId)
After(jobId) == GetJob(schedulerJobs', jobId)

\* C1: in every reachable state every job has attempts <= maxAttempts.
C1_AttemptsWithinMax ==
    \A i \in DOMAIN schedulerJobs :
        schedulerJobs[i].attempts <= schedulerJobs[i].maxAttempts

\* C2: a job's status changes to running only from queued.
C2_RunningOnlyFromQueued ==
    [][\A jobId \in JobIds :
          (Kept(jobId) /\ Before(jobId).status # "running"
                       /\ After(jobId).status = "running")
          => Before(jobId).status = "queued"]_vars

\* C3: with every run failing and no operator request, a job with
\* maxAttempts = 3 only steps queued(a) -> running(a) for a < 3,
\* running(a) -> queued(a+1) for a < 2 and running(2) -> failed(3), so it is
\* run at most 3 times.
C3_BackoffSequence ==
    [][\A jobId \in JobIds :
          (/\ Kept(jobId)
           /\ Before(jobId).maxAttempts = 3
           /\ <<Before(jobId).status, Before(jobId).attempts>>
                  # <<After(jobId).status, After(jobId).attempts>>)
          => LET a == Before(jobId)
                 b == After(jobId)
             IN  \/ /\ a.status = "queued" /\ b.status = "running"
                    /\ b.attempts = a.attempts /\ a.attempts < 3
                 \/ /\ a.status = "running" /\ b.status = "queued"
                    /\ b.attempts = a.attempts + 1 /\ a.attempts < 2
                 \/ /\ a.status = "running" /\ b.status = "failed"
                    /\ a.attempts = 2 /\ b.attempts = 3]_vars

\* C4: once a job is completed, failed or cancelled its status never changes.
C4_TerminalIsFinal ==
    [][\A jobId \in JobIds :
          (Kept(jobId) /\ Before(jobId).status \in TerminalStatuses)
          => After(jobId).status = Before(jobId).status]_vars

\* C5: a job becomes cancelled only from queued or paused; a cancel request
\* on a running, completed or failed job leaves its status unchanged.
C5_CancelOnlyQueuedOrPaused ==
    [][\A jobId \in JobIds :
          (Kept(jobId) /\ Before(jobId).status # "cancelled"
                       /\ After(jobId).status = "cancelled")
          => Before(jobId).status \in {"queued", "paused"}]_vars

C7_PausedLeavesOnlyByOperator ==
    [][\A jobId \in JobIds :
          (Kept(jobId) /\ Before(jobId).status = "paused"
                       /\ After(jobId).status # "paused")
          => \/ Resume(jobId) /\ After(jobId).status = "queued"
             \/ Cancel(jobId) /\ After(jobId).status = "cancelled"]_vars

\* C8: a resume request sets a paused job to queued, with runAt = now + 1s
\* when runAt had elapsed and runAt untouched otherwise; on a job that is not
\* paused it changes neither status nor runAt.
C8_ResumeEffect ==
    [][\A jobId \in JobIds :
          (Resume(jobId) /\ HasJob(schedulerJobs, jobId))
          => LET a == Before(jobId)
                 b == After(jobId)
             IN  IF a.status = "paused"
                 THEN /\ b.status = "queued"
                      /\ b.runAt = IF a.runAt < now THEN now + ResumeBumpSecs
                                    ELSE a.runAt
                 ELSE b.status = a.status /\ b.runAt = a.runAt]_vars

\* C9: a job cancelled while its run is in flight is not rescheduled: it
\* does not go back to queued and is not run again.
C9_CancelledInFlightNotRescheduled ==
    [][\A jobId \in JobIds :
          (Kept(jobId) /\ Before(jobId).status = "cancelled" /\ InFlight(jobId))
          => After(jobId).status \notin {"queued", "running"}]_vars

\* Job jobId is running in the table of a started process and no run of it
\* is in flight.
Orphaned(jobId) ==
    /\ schedulerTimer
    /\ HasJob(schedulerJobs, jobId)
    /\ GetJob(schedulerJobs, jobId).status = "running"
    /\ ~InFlight(jobId)

\* C10: a job left running by an unclean stop is, after the restart,
\* eventually picked up and run again: it does not stay running without a
\* run in flight for ever (unless the operator pauses or cancels it, or the
\* process stops again).
C10_OrphanedRunningIsRerun ==
    \A jobId \in AnyId : Orphaned(jobId) ~> ~Orphaned(jobId)

\* What a restart would load from the store, and what the table holds, as
\* the sets of the jobs' durable fields.
Durable(js) ==
    {[id |-> js[i].id, status |-> js[i].status, attempts |-> js[i].attempts,
      runAt |-> js[i].runAt, lastResult |-> js[i].lastResult,
      messageIds |-> js[i].messageIds, maxAttempts |-> js[i].maxAttempts]
        : i \in DOMAIN js}

\* C11: while the process runs, between any two steps (every mutation made so
\* far has returned), loading the store gives exactly the jobs of the
\* in-memory table, each with its last status, attempts, runAt and lastResult.
C11_StoreHoldsTable ==
    schedulerTimer => Durable(loadSchedulerJobs(store)) = Durable(schedulerJobs)

\* C12: enqueue appends a job with status queued and attempts 0, runAt >= the
\* enqueue time (now when the payload's runAt is missing or past, the
\* payload's runAt otherwise), messageIds without duplicates and without
\* the empty id and holding every non-empty id of the payload, and
\* maxAttempts >= 1 (3 when the payload has none).
C12_EnqueuedJob ==
    [][\A payload \in AnyPayloads(now) :
          Enqueue(payload) =>
              LET job == schedulerJobs'[Len(schedulerJobs')]
                  ids == job.messageIds
              IN  /\ Len(schedulerJobs') = Len(schedulerJobs) + 1
                  /\ job.status = "queued"
                  /\ job.attempts = 0
                  /\ job.runAt >= now
                  /\ job.runAt = IF payload.runAt > now THEN payload.runAt
                                 ELSE now
                  /\ \A i, j \in DOMAIN ids : ids[i] = ids[j] => i = j
                  /\ EmptyId \notin SeqToSet(ids)
                  /\ SeqToSet(ids) = SeqToSet(payload.messageIds) \ {EmptyId}
                  /\ job.maxAttempts >= 1
                  /\ payload.maxAttempts = 0
                        => job.maxAttempts = DefaultMaxAttempts]_vars

\* A job enqueued after the clock advanced, its runAt clamped to the enqueue
\* time, its ids deduplicated and its maxAttempts defaulted.
C12_Witness ==
    \E i \in DOMAIN schedulerJobs :
        /\ schedulerJobs[i].createdAt = MaxNow
        /\ schedulerJobs[i].runAt = MaxNow
        /\ schedulerJobs[i].messageIds = <<"m2", "m1">>
        /\ schedulerJobs[i].maxAttempts = DefaultMaxAttempts

\* C13: whenever a job has a lastResult, its succeededMessageIds and its
\* failedMessageIds are disjoint and together hold exactly the job's
\* messageIds, each once.
C13_LastResultPartitions ==
    \A i \in DOMAIN schedulerJobs :
        schedulerJobs[i].lastResult # <<>> =>
            LET job == schedulerJobs[i]
                succeeded == job.lastResult[1].succeededMessageIds
                failed == job.lastResult[1].failedMessageIds
            IN  /\ SeqToSet(succeeded) \cap SeqToSet(failed) = {}
                /\ SeqToSet(succeeded) \cup SeqToSet(failed)
                       = SeqToSet(job.messageIds)
                /\ Len(succeeded) + Len(failed) = Len(job.messageIds)

\* A job whose last run moved one message and failed on the other.
C13_Witness ==
    \E i \in DOMAIN schedulerJobs :
        /\ schedulerJobs[i].lastResult # <<>>
        /\ schedulerJobs[i].lastResult[1].succeededMessageIds # <<>>
        /\ schedulerJobs[i].lastResult[1].failedMessageIds # <<>>

\* The error kinds of the executor's contract.
ThrottledErrors == {ThrottledNoHint, ThrottledHeader, ThrottledInMessage}
TransientErrors == {ServerUnavailable, NetworkDown}
OtherErrors == {BadRequest, PlainError}

\* The outcomes of a call so far are those of a work function that fails
\* with a throttling error on its first two invocations and then succeeds.
ThrottledTwiceThenOk(outcomes) ==
    /\ Len(outcomes) <= 3
    /\ \A i \in DOMAIN outcomes :
          IF i <= 2 THEN outcomes[i] \in ThrottledErrors
          ELSE outcomes[i] = Resolved

\* C14: a call with maxRetries >= 2 whose work function fails with a
\* throttling error on its first two invocations and then succeeds does not
\* fail, and has returned exactly when the work function has been invoked 3
\* times and has answered 3 times.
C14_ThrottledTwiceThenSuccess ==
    \A c \in DOMAIN calls :
        (calls[c].maxRetries >= 2 /\ ThrottledTwiceThenOk(calls[c].outcomes))
        => /\ calls[c].pc # "threw"
           /\ calls[c].invoked <= 3
           /\ calls[c].pc = "returned"
                <=> (Len(calls[c].outcomes) = 3 /\ calls[c].invoked = 3)

\* A call that returned after two throttled invocations and a third,
\* successful one.
C14_Witness ==
    \E c \in DOMAIN calls :
        /\ calls[c].maxRetries >= 2
        /\ Len(calls[c].outcomes) = 3
        /\ ThrottledTwiceThenOk(calls[c].outcomes)
        /\ calls[c].pc = "returned"

\* C15: a call with maxRetries >= 0 invokes the work function at most
\* maxRetries + 1 times; when maxRetries + 1 invocations have all failed with
\* throttled or transient errors the call has failed with the error of the
\* last one.
C15_AtMostMaxRetriesPlusOne ==
    \A c \in DOMAIN calls :
        calls[c].maxRetries >= 0 =>
            LET outcomes == calls[c].outcomes
            IN  /\ calls[c].invoked <= calls[c].maxRetries + 1
                /\ (/\ Len(outcomes) = calls[c].maxRetries + 1
                    /\ \A i \in DOMAIN outcomes :
                          outcomes[i] \in ThrottledErrors \cup TransientErrors)
                   => /\ calls[c].pc = "threw"
                      /\ calls[c].thrown = <<outcomes[Len(outcomes)]>>

\* A call with maxRetries = 2 that failed after a throttled, a transient and
\* another throttled invocation.
C15_Witness ==
    \E c \in DOMAIN calls :
        /\ calls[c].maxRetries = 2
        /\ calls[c].invoked = 3
        /\ calls[c].outcomes = <<ThrottledHeader, NetworkDown, ThrottledNoHint>>
        /\ calls[c].pc = "threw"

\* C16: when an invocation fails with an error that is neither throttled nor
\* transient, the call fails with that error in the same step (no backoff
\* wait), the cooldown timestamp is unchanged, and the work function is not
\* invoked again: a call that has failed never changes.
C16_OtherErrorFailsAtOnce ==
    [][\A c \in DOMAIN calls :
          /\ \A error \in OtherErrors : \A jitterPercent \in JitterPercents :
                Rejects(c, error, jitterPercent)
                => /\ calls'[c].pc = "threw"
                   /\ calls'[c].thrown = <<error>>
                   /\ calls'[c].invoked = calls[c].invoked
                   /\ retryAfter' = retryAfter
          /\ calls[c].pc = "threw" => calls'[c] = calls[c]]_vars

\* A call that failed on a bad request at its second invocation, with
\* retries left and the cooldown timestamp of the first, throttled
\* invocation still set.
C16_Witness ==
    \E c \in DOMAIN calls :
        /\ calls[c].pc = "threw"
        /\ calls[c].outcomes = <<ThrottledNoHint, BadRequest>>
        /\ calls[c].attempt < calls[c].maxRetries
        /\ retryAfter # 0

\* C17: when processContacts has returned, for a contact list with pairwise
\* distinct ids, the results are one per contact, in the contacts' order (so
\* none is missing and none is repeated), and each is completed or failed.
C17_EveryContactTerminal ==
    dispatchPc = "returned" =>
        /\ Len(results) = Len(contacts)
        /\ \A i \in DOMAIN results :
              /\ results[i].contactId = contacts[i]
              /\ results[i].status \in {"completed", "failed"}

\* A returned run over the longest list with completed and failed results.
C17_Witness ==
    /\ dispatchPc = "returned"
    /\ Len(contacts) = MaxContacts
    /\ \E i \in DOMAIN results : results[i].status = "completed"
    /\ \E i \in DOMAIN results : results[i].status = "failed"

\* pending < processing < completed, failed
Rank(status) ==
    CASE status = "pending" -> 0
      [] status = "processing" -> 1
      [] OTHER -> 2

\* C18: during a run every result's status moves forward only: from pending
\* to processing, from processing to completed or failed; it never goes back
\* to pending or processing, and a completed or failed result stays completed
\* or failed.
C18_StatusMovesForward ==
    [][dispatchPc # "idle" =>
          \A i \in DOMAIN results :
              /\ Rank(results'[i].status) >= Rank(results[i].status)
              /\ Rank(results'[i].status) <= Rank(results[i].status) + 1]_vars

\* A returned run of four groups in which a failed upload has turned a
\* completed result (it has a message id) into a failed one.
C18_Witness ==
    /\ dispatchPc = "returned"
    /\ Len(batches) = 4
    /\ \E i \in DOMAIN results :
          results[i].status = "failed" /\ results[i].messageId # 0

\* The number of completed or failed results of a snapshot.
Finished(snapshot) ==
    Cardinality({i \in DOMAIN snapshot :
                    snapshot[i].status \in {"completed", "failed"}})

\* C19: from one onProgress snapshot to the next, the number of completed or
\* failed results never decreases.
C19_ProgressNeverDecreases ==
    \A n \in 1 .. Len(progress) - 1 :
        Finished(progress[n]) <= Finished(progress[n + 1])

\* A run of four groups in which the second group of the first window was
\* done before the first, with the last snapshot delivered after the uploads.
C19_Witness ==
    /\ dispatchPc = "returned"
    /\ Len(progress) = 9
    /\ progress[4][BATCH_SIZE + 1].status \in {"completed", "failed"}
    /\ progress[4][1].status = "processing"

\* The concatenation of a list of lists.
RECURSIVE Flat(_)
Flat(lists) == IF lists = <<>> THEN <<>> ELSE Head(lists) \o Flat(Tail(lists))

\* C20: the groups createBatches makes, concatenated in order, are the
\* contact list; every group but the last has exactly 20 contacts and the
\* last has 1 to 20; 45 contacts give groups of 20, 20 and 5 and the empty
\* list gives no group.
C20_CreateBatchesPartitions ==
    dispatchPc = "batched" =>
        /\ Flat(batches) = contacts
        /\ \A b \in DOMAIN batches :
              IF b < Len(batches) THEN Len(batches[b]) = 20
              ELSE Len(batches[b]) \in 1 .. 20
        /\ Len(contacts) = 45
              => [b \in DOMAIN batches |-> Len(batches[b])] = <<20, 20, 5>>
        /\ contacts = <<>> => batches = <<>>

\* The groups of a list of 45 contacts have been made.
C20_Witness ==
    /\ dispatchPc = "batched"
    /\ Len(contacts) = 45
    /\ Len(batches) = 3

\* The uploads of attachmentResults that failed for message id messageId.
FailedUploads(uploaded, messageId) ==
    {k \in DOMAIN uploaded :
        uploaded[k].messageId = messageId /\ ~uploaded[k].success}

\* C21: when the uploader has resolved, exactly the contacts whose message's
\* upload failed go from completed to failed, with the error the uploader
\* reported for that message, and keep their message id; the result of every
\* other contact (status, messageId, error) is as it was.
C21_AttachmentFailureDowngrades ==
    [][(dispatchPc = "attaching" /\ dispatchPc' = "returned") =>
          /\ DOMAIN results' = DOMAIN results
          /\ \A i \in DOMAIN results :
                 LET failedUploads ==
                         FailedUploads(attachmentResults', results[i].messageId)
                 IN  IF failedUploads # {}
                     THEN /\ results[i].status = "completed"
                          /\ \E k \in failedUploads :
                                 results'[i] =
                                     [results[i] EXCEPT
                                         !.status = "failed",
                                         !.error = attachmentResults'[k].error]
                     ELSE results'[i] = results[i]]_vars

\* The uploader reported a failure and a success; a contact was downgraded
\* to failed with the upload's error, another stayed completed, a third had
\* failed before the uploads.
C21_Witness ==
    /\ dispatchPc = "returned"
    /\ \E k, l \in DOMAIN attachmentResults :
           ~attachmentResults[k].success /\ attachmentResults[l].success
    /\ \E i, j, h \in DOMAIN results :
           /\ results[i].status = "failed"
           /\ results[i].messageId # 0
           /\ results[i].error = "Upload failed"
           /\ results[j].status = "completed"
           /\ results[h].status = "failed"
           /\ results[h].messageId = 0

\* An upload of the message at position i was refused by the remote service.
UploadRefused(i) == \E n \in DOMAIN served[i] : ~served[i][n].ok

\* C22: once attachFileToMultipleDrafts has resolved, the results hold one
\* entry per message id given, in the order given, and an entry's success is
\* false exactly when a request of that message's upload (the upload session
\* or a chunk) was refused. (The call has no path on which it rejects.)
C22_OneResultPerMessage ==
    uploadPc = "resolved" =>
        /\ Len(uploadResults) = Len(uploadIds)
        /\ \A i \in DOMAIN uploadIds :
               /\ uploadResults[i].messageId = uploadIds[i]
               /\ uploadResults[i].success = ~UploadRefused(i)

\* A call for more messages than one group resolved, with a refused upload
\* session, a refused chunk and a complete upload of several chunks.
C22_Witness ==
    /\ uploadPc = "resolved"
    /\ Len(uploadIds) > UploadConcurrency
    /\ uploadFile > CHUNK_SIZE
    /\ \E i, j, h \in DOMAIN uploadResults :
           /\ ~uploadResults[i].success
           /\ uploadResults[i].error = "Session refused"
           /\ ~uploadResults[j].success
           /\ uploadResults[j].error = "Upload failed"
           /\ uploadResults[h].success
           /\ h > UploadConcurrency

\* The ensureValidToken calls whose graphService.refreshTokens call is
\* awaited.
Refreshing == {c \in DOMAIN tokenCalls : tokenCalls[c].pc = "refreshing"}

\* C23: at any time at most one refreshTokens call is in flight, however
\* many ensureValidToken calls found the credential expired; a call that
\* meets an in-flight refresh starts none.
C23_OneRefreshInFlight == Cardinality(Refreshing) <= 1

\* Two calls read the expired credential; one refreshes, the other polls.
C23_Witness ==
    \E c, d \in DOMAIN tokenCalls :
        /\ tokenCalls[c].pc = "refreshing"
        /\ tokenCalls[d].pc = "polling"
        /\ isTokenExpired(tokenCalls[c].read, guardClock)
        /\ isTokenExpired(tokenCalls[d].read, guardClock)

\* C24: a call that went through refreshToken (refreshing itself, or polling
\* behind the flag) returns true only when the credential held at that
\* moment is not expired; after a failed refresh it returns false.
C24_TrueOnlyAfterGoodRefresh ==
    [][\A c \in DOMAIN tokenCalls :
          (/\ tokenCalls[c].pc \in {"refreshing", "polling"}
           /\ tokenCalls'[c].pc = "returned"
           /\ tokenCalls'[c].result)
              => tokens'.present /\ ~isTokenExpired(tokens', guardClock')]_vars

\* C25: when the run awaited by a poll callback throws, the job gets
\* attempts + 1 and the error, and is queued with runAt = now + backoff when
\* attempts + 1 < maxAttempts and failed with its runAt otherwise; the
\* callback goes on with the rest of its due jobs (the next one is marked
\* running and run), the other jobs are untouched and the timer stays
\* installed.
C25_ThrownRunIsRetriedOrFailed ==
    [][\A t \in DOMAIN ticks :
          RunThrows(t) =>
              LET job == Head(ticks[t])
                  rest == Tail(ticks[t])
                  a == Before(job.id)
                  b == After(job.id)
              IN  /\ b.attempts = a.attempts + 1
                  /\ b.error = ExecutionError
                  /\ IF a.attempts + 1 < a.maxAttempts
                     THEN b.status = "queued" /\ b.runAt = now + Backoff(a.attempts)
                     ELSE b.status = "failed" /\ b.runAt = a.runAt
                  /\ schedulerTimer'
                  /\ Len(schedulerJobs') = Len(schedulerJobs)
                  /\ IF rest # <<>>
                     THEN /\ t \in DOMAIN ticks' /\ ticks'[t] = rest
                          /\ After(Head(rest).id).status = "running"
                          /\ \A other \in JobIds \ {job.id, Head(rest).id} :
                                 After(other) = Before(other)
                     ELSE /\ Len(ticks') = Len(ticks) - 1
                          /\ \A other \in JobIds \ {job.id} :
                                 After(other) = Before(other)]_vars

\* A run has thrown and its job is queued again with the error, one attempt
\* and the first backoff, while the same callback runs its next due job.
C25_Witness ==
    /\ Len(ticks) = 1
    /\ \E i, j \in DOMAIN schedulerJobs :
           /\ schedulerJobs[i].error = ExecutionError
           /\ schedulerJobs[i].status = "queued"
           /\ schedulerJobs[i].attempts = 1
           /\ schedulerJobs[i].runAt = now + Backoff(0)
           /\ schedulerJobs[j].status = "running"
           /\ schedulerJobs[j].attempts = 0
           /\ Head(ticks[1]).id = schedulerJobs[j].id

\* C26: when a run returns, the jobs other than the run's job are in the
\* table as they were (a job enqueued during the run among them), and the
\* run's job is its current record with the result applied to it: what the
\* result would be had the run been started from the current record.
C26_ResultAppliedToCurrent ==
    [][\A t \in DOMAIN ticks : \A failed \in SUBSET AllMessageIds :
          RunReturns(t, failed) =>
              LET job == Head(ticks[t])
                  rest == Tail(ticks[t])
                  current == Before(job.id)
                  applied == RunResult(current, Snapshot(current), failed, now)
              IN  /\ Len(schedulerJobs') = Len(schedulerJobs)
                  /\ \A other \in JobIds \ ({job.id} \cup {rest[n].id : n \in DOMAIN rest}) :
                         After(other) = Before(other)
                  /\ (rest = <<>> \/ Head(rest).id # job.id)
                         => After(job.id) = applied]_vars

\* The runs of job jobId that poll callbacks are awaiting.
RunsInFlight(jobId) == {t \in DOMAIN ticks : Head(ticks[t]).id = jobId}

\* C27: at any time at most one run of a job is in flight.
C27_OneRunPerJob ==
    \A jobId \in JobIds : Cardinality(RunsInFlight(jobId)) <= 1

\* C30: a completed job has a lastResult with no failed message and with
\* the job's message ids as the succeeded ones, and no error; a failed job
\* has an error.
C30_CompletedAndFailedRecords ==
    \A i \in DOMAIN schedulerJobs :
        LET job == schedulerJobs[i]
        IN  /\ job.status = "completed" =>
                   /\ job.lastResult # <<>>
                   /\ job.lastResult[1].failedMessageIds = <<>>
                   /\ job.lastResult[1].succeededMessageIds = job.messageIds
                   /\ job.error = NoError
            /\ job.status = "failed" => job.error # NoError

\* A job completed by its second run, after a first run with a failed
\* message.
C30_Witness ==
    \E i \in DOMAIN schedulerJobs :
        /\ schedulerJobs[i].status = "completed"
        /\ schedulerJobs[i].attempts = 2
        /\ schedulerJobs[i].messageIds # <<>>

\* C29: when a run returns with a failed message, attempts being the
\* attempts of the job when the run was started: with attempts + 1 <
\* maxAttempts the job is queued with runAt = now + min(600, 30 * 2^(attempts
\* + 1)) seconds, which is now + 60 after the first run, now + 120 after the
\* second and at most now + 600; otherwise the job is failed and its runAt
\* is the one it was started with.
C29_BackoffNumbers ==
    [][\A t \in DOMAIN ticks : \A failed \in (SUBSET AllMessageIds) \ {{}} :
          (RunReturns(t, failed) /\ failed \cap SeqToSet(Head(ticks[t]).messageIds) # {})
          => LET job == Head(ticks[t])
                 b == After(job.id)
                 wait == 30 * 2 ^ (job.attempts + 1)
             IN  IF job.attempts + 1 < job.maxAttempts
                 THEN /\ b.status = "queued"
                      /\ b.runAt = now + (IF wait < 600 THEN wait ELSE 600)
                      /\ job.attempts = 0 => b.runAt = now + 60
                      /\ job.attempts = 1 => b.runAt = now + 120
                      /\ b.runAt <= now + 600
                 ELSE /\ b.status = "failed"
                      /\ b.runAt = job.runAt]_vars

\* A job requeued after its fifth failed run, with the capped wait of 600 s.
C29_Witness ==
    \E i \in DOMAIN schedulerJobs :
        /\ schedulerJobs[i].status = "queued"
        /\ schedulerJobs[i].attempts = 5
        /\ schedulerJobs[i].runAt = now + 600
        /\ schedulerJobs[i].lastResult # <<>>
        /\ schedulerJobs[i].lastResult[1].failedMessageIds # <<>>

\* The requests answered for message id m, in order.
RequestsOf(m) == SelectSeq(graphRequests, LAMBDA r : r.messageId = m)

\* The message ids the loop is done with: recorded as succeeded or failed.
Recorded ==
    runSucceeded \o [n \in DOMAIN runFailed |-> runFailed[n].messageId]

\* What the remote service may have seen of a message the loop is done
\* with: its category patch when the job has a category, then its move when
\* there was no patch or the patch went through.
ProcessedOnce(m) ==
    LET rs == RequestsOf(m)
        methods == [n \in DOMAIN rs |-> rs[n].method]
    IN  /\ methods \in (IF HasCategory(runJob) THEN {<<"PATCH">>, <<"PATCH", "POST">>}
                        ELSE {<<"POST">>})
        /\ Len(rs) = 2 => rs[1].ok
        /\ (\E n \in DOMAIN runSucceeded : runSucceeded[n] = m)
               <=> \A n \in DOMAIN rs : rs[n].ok

\* C28: in a run that has reached its loop, the messages the loop is done
\* with are the first ones of the job, each recorded once as succeeded or
\* failed; each was processed once (one patch when the job has a category,
\* then one move unless the patch failed), is failed exactly when one of
\* its requests failed, and when the run returns the loop is done with
\* every message of the job.
C28_EveryMessageProcessedOnce ==
    runPc \in {"patch", "move", "returned"} =>
        /\ \A n \in DOMAIN Recorded :
               /\ Recorded[n] \in SeqToSet(SubSeq(runJob.messageIds, 1, runIndex - 1))
               /\ \A k \in DOMAIN Recorded : Recorded[k] = Recorded[n] => k = n
        /\ \A i \in 1 .. runIndex - 1 :
               /\ i \in DOMAIN runJob.messageIds
               /\ \E n \in DOMAIN Recorded : Recorded[n] = runJob.messageIds[i]
               /\ ProcessedOnce(runJob.messageIds[i])
        /\ runPc = "returned" => runIndex = Len(runJob.messageIds) + 1

\* A run of a job with a category has returned: the patch of its first
\* message failed (no move), the move of the second failed, the third was
\* moved.
C28_Witness ==
    /\ runPc = "returned"
    /\ Len(runJob.messageIds) = 3
    /\ [n \in DOMAIN graphRequests |-> <<graphRequests[n].method, graphRequests[n].ok>>]
           = << <<"PATCH", FALSE>>, <<"PATCH", TRUE>>, <<"POST", FALSE>>,
                <<"PATCH", TRUE>>, <<"POST", TRUE>> >>
    /\ Len(runFailed) = 2
    /\ runSucceeded = <<runJob.messageIds[3]>>

\* The calls whose work function is invoked by the step.
Invoked ==
    {c \in DOMAIN calls' :
        calls'[c].invoked > (IF c \in DOMAIN calls THEN calls[c].invoked ELSE 0)}

\* C31: no attempt invokes the work function while the executor's cooldown
\* timestamp is in the future, also when the calls of a batch share the
\* executor and one of them is throttled while another waits or is in flight.
C31_NoInvocationDuringCooldown ==
    [][Invoked # {} => retryAfter <= clock]_vars

\* The request of position r was executed and has finished.
Executed(r) ==
    /\ r \in DOMAIN calls
    /\ calls[r].pc \in {"returned", "threw"}

\* Every call made so far has finished.
AllFinished == \A c \in DOMAIN calls : Executed(c)

\* What executeBatch hands its caller for request r: its value when the
\* batch returned, its error when the batch was rejected with it.
Obtained(r) ==
    /\ Executed(r)
    /\ BatchReturned \/ calls[r].pc = "threw"

\* C32: for every request of the batch the caller obtains that request's own
\* outcome, also when another request of the batch fails for good, and the
\* requests of later chunks are still executed in that case.
C32_EveryOutcomeObtained ==
    (batchRequests > 0 /\ AllFinished) =>
        \A r \in 1 .. batchRequests : Obtained(r)

\* The results of the contacts of group b.
GroupResults(rs, b) ==
    {i \in DOMAIN rs : \E k \in DOMAIN batches[b] : rs[i].contactId = batches[b][k]}

\* Group b was started: its first contact is no longer pending (a group is
\* not empty, and its contacts are marked together).
Started(b) ==
    \E i \in DOMAIN results :
        /\ results[i].contactId = batches[b][1]
        /\ results[i].status # "pending"

\* C33: at every moment at most 3 groups have an outstanding createBatchDrafts
\* call, and a group is started only when the groups ahead of it in list
\* order have been started.
C33_AtMostThreeGroupsInOrder ==
    /\ Cardinality(outstanding) <= MAX_CONCURRENT_BATCHES
    /\ \A b \in outstanding : Started(b)
    /\ \A b \in DOMAIN batches : Started(b) => \A a \in 1 .. b - 1 : Started(a)

\* Three groups are outstanding while a fourth waits for its window.
C33_Witness ==
    /\ Cardinality(outstanding) = MAX_CONCURRENT_BATCHES
    /\ Len(batches) > MAX_CONCURRENT_BATCHES
    /\ ~Started(Len(batches))

\* C34: when the batch call of a group fails as a whole, every contact of the
\* group ends failed with the transport error, the call is not made again
\* (a group becomes outstanding only when it was never started), and the
\* results of the contacts of the other groups are left as they are, but for
\* the groups of the next window, which are started when the failed group
\* was the last of its window.
C34_GroupFailureStaysInGroup ==
    [][/\ \A b \in DOMAIN batches :
              BatchThrows(b) =>
                  /\ b \notin outstanding'
                  /\ \A i \in GroupResults(results, b) :
                         /\ results'[i].status = "failed"
                         /\ results'[i].error = "Network request failed"
                  /\ \A i \in DOMAIN results \ GroupResults(results, b) :
                         \/ results'[i] = results[i]
                         \/ /\ results[i].status = "pending"
                            /\ results'[i] =
                                   [results[i] EXCEPT !.status = "processing"]
       /\ \A b \in DOMAIN batches' :
              (b \in outstanding' /\ Len(batches) = Len(batches')) =>
                  b \in outstanding \/ ~Started(b)]_vars

\* The call of one group has failed as a whole while the call of another
\* group of its window is still awaited.
C34_Witness ==
    \E b \in DOMAIN batches :
        /\ b \notin outstanding
        /\ outstanding # {}
        /\ \A i \in GroupResults(results, b) :
               /\ results[i].status = "failed"
               /\ results[i].error = "Network request failed"

\* C35: when ensureValidToken returns false processContacts fails before any
\* work is done: no group is made or started, no upload is started,
\* onProgress was never invoked and every result is still pending.
C35_NoWorkWithoutToken ==
    dispatchPc = "threw" =>
        /\ batches = <<>>
        /\ outstanding = {}
        /\ createdMessageIds = <<>>
        /\ attachmentResults = <<>>
        /\ progress = <<>>
        /\ Len(results) = Len(contacts)
        /\ \A i \in DOMAIN results : results[i] = PendingResult(contacts[i])

\* processContacts has failed for the longest contact list.
C35_Witness ==
    /\ dispatchPc = "threw"
    /\ Len(contacts) > BATCH_SIZE

\* C36: results are handed to observers by value: a snapshot an observer kept
\* still shows the statuses, message ids and errors it had when delivered.
C36_SnapshotsKeepTheirValues ==
    \A n \in DOMAIN progress : SnapshotRead(progress[n], results) = progress[n]

\* Contact i of the group gets the outcome of the response with request id i
\* of the list: completed with its message id when it is a 2xx with a message
\* id, failed otherwise and when there is no such response.
AttributedByOrdinal(rs, batch, responses) ==
    \A i \in DOMAIN batch :
        \A r \in DOMAIN rs :
            rs[r].contactId = batch[i] =>
                IF \E j \in DOMAIN responses :
                       /\ responses[j].id = i
                       /\ responses[j].status >= 200
                       /\ responses[j].status < 300
                       /\ responses[j].messageId # 0
                THEN /\ rs[r].status = "completed"
                     /\ \E j \in DOMAIN responses :
                            /\ responses[j].id = i
                            /\ rs[r].messageId = responses[j].messageId
                ELSE /\ rs[r].status = "failed"
                     /\ rs[r].messageId = 0

\* C37: each per-item response of a batch call is attributed to the contact
\* at the same position in the group, for a response list that is any
\* permutation or any subset of the request ids: contact i is completed with
\* the id of response i when that is a 2xx with a message id, and failed
\* otherwise, also when response i is missing. Stated on the group whose
\* call is awaited, for the results its return leaves.
C37_ResponsesAttributedByOrdinal ==
    \A b \in outstanding :
        \A responses \in PermutedResponses(Len(batches[b])) :
            AttributedByOrdinal(
                ApplyBatchResults(results, batches[b],
                                  createBatchDrafts(Len(batches[b]), responses)),
                batches[b], responses)

\* A group of MaxGroup contacts in descending id order whose first request
\* got no response and whose last request made a draft.
C37_Witness ==
    /\ contacts = Descending(MaxGroup)
    /\ dispatchPc = "returned"
    /\ results[1].status = "failed"
    /\ results[1].error = "Missing batch response"
    /\ results[2].error = "Invalid recipient"
    /\ results[MaxGroup].status = "completed"
    /\ results[MaxGroup].messageId = DraftId(0, MaxGroup)

\* The positions of messageIds whose upload is in progress: started and not
\* settled.
InProgress ==
    {promises[k].position : k \in {j \in DOMAIN promises :
                                       promises[j].pc # "settled"}}

\* The upload of the message at position i has finished: a request of it was
\* refused, or every byte of the file was put.
UploadFinished(i) ==
    /\ served[i] # <<>>
    /\ LET final == served[i][Len(served[i])]
       IN  \/ ~final.ok
           \/ final.kind = "session" /\ uploadFile = 0
           \/ final.kind = "chunk" /\ final.last = uploadFile - 1

\* C38: at every moment of attachFileToMultipleDrafts at most 3 message
\* uploads are in progress, and the call resolves only after the upload of
\* every message given has finished, with success or failure.
C38_AtMostThreeUploads ==
    /\ Cardinality(InProgress) <= UploadConcurrency
    /\ uploadPc = "resolved" =>
           /\ InProgress = {}
           /\ Len(uploadResults) = Len(uploadIds)
           /\ \A i \in DOMAIN uploadIds : UploadFinished(i)

\* Three uploads of a file of several chunks are in progress, one of them
\* between two chunks, while a fourth message waits for the next group.
C38_Witness ==
    /\ Cardinality(InProgress) = UploadConcurrency
    /\ Len(uploadIds) > UploadConcurrency
    /\ served[Len(uploadIds)] = <<>>
    /\ \E k \in DOMAIN promises : promises[k].pc = "delay"

\* The chunk requests among the requests answered for one message.
ChunkRequests(log) == SelectSeq(log, LAMBDA request : request.kind = "chunk")

\* The byte ranges of one message's chunk requests start at byte 0, follow
\* one another without gap or overlap, hold 1 to CHUNK_SIZE bytes each and
\* stay inside the file; nothing is requested after a refused request.
RangesInOrder(log, totalSize) ==
    LET chunks == ChunkRequests(log)
    IN  /\ \A n \in DOMAIN chunks :
               /\ chunks[n].first = IF n = 1 THEN 0 ELSE chunks[n - 1].last + 1
               /\ chunks[n].last >= chunks[n].first
               /\ chunks[n].last - chunks[n].first + 1 <= CHUNK_SIZE
               /\ chunks[n].last <= totalSize - 1
        /\ \A n \in DOMAIN log : ~log[n].ok => n = Len(log)

\* The ranges of a message's chunk requests cover the bytes 0 .. totalSize-1.
RangesCover(log, totalSize) ==
    LET chunks == ChunkRequests(log)
    IN  IF totalSize = 0 THEN chunks = <<>>
        ELSE chunks # <<>> /\ chunks[Len(chunks)].last = totalSize - 1

\* The result reported for the message at position i, <<>> while there is
\* none: the one pushed to results, or the one its promise settled with.
Reported(rs, ps, i) ==
    IF i <= Len(rs) THEN <<rs[i]>>
    ELSE IF \E k \in DOMAIN ps : ps[k].position = i /\ ps[k].pc = "settled"
         THEN (ps[CHOOSE k \in DOMAIN ps : ps[k].position = i]).result
         ELSE <<>>

\* C39: for one message the chunks are put one after another, with byte
\* ranges that are contiguous, do not overlap, hold at most the chunk size
\* and cover the bytes 0 .. totalSize-1 exactly when all succeed; after a
\* refused chunk no further chunk of the message is sent and the message is
\* reported failed, and the step in which a request of one message is
\* refused answers no request of another message and changes no result
\* reported for another message.
C39_ChunkRangesAndFailure ==
    [][/\ \A i \in DOMAIN served' :
              /\ RangesInOrder(served'[i], uploadFile')
              /\ UploadRefused(i)' =>
                     /\ Reported(uploadResults', promises', i) # <<>>
                     /\ ~Reported(uploadResults', promises', i)[1].success
              /\ (/\ Reported(uploadResults', promises', i) # <<>>
                  /\ Reported(uploadResults', promises', i)[1].success) =>
                     RangesCover(served'[i], uploadFile')
       /\ \A i \in DOMAIN served :
              (DOMAIN served' = DOMAIN served /\ UploadRefused(i)'
               /\ ~UploadRefused(i)) =>
                  \A j \in DOMAIN served \ {i} :
                      /\ served'[j] = served[j]
                      /\ Reported(uploadResults, promises, j) # <<>> =>
                             Reported(uploadResults', promises', j)
                                 = Reported(uploadResults, promises, j)]_vars

\* The second chunk of one message was refused, and another message of the
\* same call was uploaded whole after that.
C39_Witness ==
    \E i, j \in DOMAIN served :
        /\ i < j
        /\ UploadRefused(i)
        /\ Len(ChunkRequests(served[i])) > 1
        /\ Reported(uploadResults, promises, j) # <<>>
        /\ Reported(uploadResults, promises, j)[1].success
        /\ Len(ChunkRequests(served[j])) > 2

\* C40: the refresh flag is released when the in-flight refresh finishes,
\* with success or failure: the flag is set exactly while a refresh is in
\* flight, and, the refresh call terminating, every ensureValidToken call
\* that polls behind the flag eventually returns.
C40_FlagReleasedAndWaitersReturn ==
    /\ [](refreshMutex <=> Refreshing # {})
    /\ \A c \in 1 .. MaxCallers :
           (c \in DOMAIN tokenCalls /\ tokenCalls[c].pc = "polling")
               ~> (c \in DOMAIN tokenCalls /\ tokenCalls[c].pc = "returned")

\* A refresh has failed and released the flag, and the call that polled
\* behind it has returned.
C40_Witness ==
    /\ ~refreshMutex
    /\ isTokenExpired(tokens, guardClock)
    /\ \E c, d \in DOMAIN tokenCalls :
           /\ tokenCalls[c].pc = "returned"
           /\ tokenCalls[c].read.present
           /\ ~tokenCalls[c].result
           /\ tokenCalls[d].pc = "returned"
           /\ tokenCalls[d].result

====
